---- MODULE Spec2Model ----
(***************************************************************************)
(* Model of the DNS-over-HTTPS resolver of the Root DNS backend:           *)
(* handleDoH and formatRecordData (src/src/handlers/doh.ts), the           *)
(* management API that fills the store it reads (handleApi), and the       *)
(* upstream resolver table (types.ts, kept in src/src/index.ts).           *)
(*                                                                         *)
(* Names, hosts, TLDs and the CUSTOM_TLDS binding are JavaScript strings   *)
(* on which the code runs toLowerCase, split, slice and join: they are     *)
(* sequences of one-character strings here and those functions are         *)
(* computed.  Record type tags and record values are opaque strings; the   *)
(* few string functions the code runs on them (toUpperCase, trim,          *)
(* startsWith, JSON.parse) are given on the finite universe of the model.  *)
(***************************************************************************)
EXTENDS Integers, Sequences, FiniteSets, TLC

\* --------------------------------------------------------------------------
\* JavaScript strings as sequences of characters
\* --------------------------------------------------------------------------

\* String.prototype.toLowerCase on one character (ASCII letters).
toLowerCaseChar(c) ==
  CASE c = "A" -> "a" [] c = "B" -> "b" [] c = "C" -> "c" [] c = "D" -> "d"
    [] c = "E" -> "e" [] c = "F" -> "f" [] c = "G" -> "g" [] c = "H" -> "h"
    [] c = "I" -> "i" [] c = "J" -> "j" [] c = "K" -> "k" [] c = "L" -> "l"
    [] c = "M" -> "m" [] c = "N" -> "n" [] c = "O" -> "o" [] c = "P" -> "p"
    [] c = "Q" -> "q" [] c = "R" -> "r" [] c = "S" -> "s" [] c = "T" -> "t"
    [] c = "U" -> "u" [] c = "V" -> "v" [] c = "W" -> "w" [] c = "X" -> "x"
    [] c = "Y" -> "y" [] c = "Z" -> "z" [] OTHER -> c

\* question.name.toLowerCase()
toLowerCase(s) == [i \in 1..Len(s) |-> toLowerCaseChar(s[i])]

\* Index of the first occurrence of the character sep in s, 0 when there is none.
indexOf(s, sep) ==
  IF \E i \in 1..Len(s) : s[i] = sep
  THEN CHOOSE i \in 1..Len(s) : s[i] = sep /\ \A j \in 1..(i - 1) : s[j] # sep
  ELSE 0

\* String.prototype.split(sep) for a one-character separator: "" gives [""],
\* "." gives ["", ""], "a.b" gives ["a", "b"].
RECURSIVE split(_, _)
split(s, sep) ==
  LET i == indexOf(s, sep)
  IN  IF i = 0 THEN << s >>
      ELSE << SubSeq(s, 1, i - 1) >> \o split(SubSeq(s, i + 1, Len(s)), sep)

\* Array.prototype.join(sep): [] gives "", ["a"] gives "a".
RECURSIVE join(_, _)
join(list, sep) ==
  IF Len(list) = 0 THEN << >>
  ELSE IF Len(list) = 1 THEN list[1]
  ELSE list[1] \o << sep >> \o join(Tail(list), sep)

\* Array.prototype.includes
includes(list, x) == \E i \in 1..Len(list) : list[i] = x

\* Array.prototype.slice(0, end) for end >= 0 or negative-clamped to 0.
slice(list, end) == SubSeq(list, 1, IF end < 0 THEN 0 ELSE end)

\* list[i] for a zero-based index; out of range is undefined, which the code
\* only tests for falsiness: the empty string stands for it.
at(list, i) == IF i >= 0 /\ i < Len(list) THEN list[i + 1] ELSE << >>

\* --------------------------------------------------------------------------
\* JavaScript values (the data an answer carries, a parsed record value)
\* --------------------------------------------------------------------------

JUndefined == [t |-> "undefined"]
JStr(s) == [t |-> "string", s |-> s]
JNum(n) == [t |-> "number", n |-> n]
\* An object is its list of <<key, value>> pairs in insertion order.
JObj(fields) == [t |-> "object", f |-> fields]
JArr(elems) == [t |-> "array", e |-> elems]

\* typeof v === 'object' (an array is an object; JSON.parse of a text that
\* starts with '{' or '[' never gives null).
typeofObject(v) == v.t \in {"object", "array"}

\* Array.isArray
isArray(v) == v.t = "array"

\* v.key: the property of an object, undefined otherwise.
prop(v, key) ==
  IF v.t = "object" /\ \E i \in 1..Len(v.f) : v.f[i][1] = key
  THEN v.f[CHOOSE i \in 1..Len(v.f) : v.f[i][1] = key][2]
  ELSE JUndefined

\* JavaScript truthiness.
truthy(v) ==
  CASE v.t = "undefined" -> FALSE
    [] v.t = "null" -> FALSE
    [] v.t = "string" -> v.s # ""
    [] v.t = "number" -> v.n # 0
    [] OTHER -> TRUE

\* a || b
or(a, b) == IF truthy(a) THEN a ELSE b

\* parsed.key = val on an object (an array keeps its elements: the named
\* property is not part of what the encoder reads from it).
setProp(v, key, val) ==
  IF v.t = "object" THEN JObj(Append(v.f, << key, val >>)) ELSE v

\* --------------------------------------------------------------------------
\* Record type tags and record values: opaque strings
\* --------------------------------------------------------------------------

\* type.toUpperCase() on the type tags of the model; a tag already in upper
\* case is its own image.
toUpperCase(type) ==
  CASE type = "a" -> "A"
    [] type = "cname" -> "CNAME"
    [] type = "Cname" -> "CNAME"
    [] type = "mx" -> "MX"
    [] type = "txt" -> "TXT"
    [] type = "srv" -> "SRV"
    [] type = "xyz" -> "XYZ"
    [] OTHER -> type

\* The JSON texts of the model and the values JSON.parse gives for them.
JsonDocs ==
  { [text |-> "{\"preference\":5,\"exchange\":\"mx.acme.shop\"}",
     value |-> JObj(<< << "preference", JNum(5) >>,
                       << "exchange", JStr("mx.acme.shop") >> >>)],
    [text |-> "[\"v=spf1\",\"-all\"]",
     value |-> JArr(<< JStr("v=spf1"), JStr("-all") >>)],
    [text |-> "{}", value |-> JObj(<< >>)],
    [text |-> "{\"preference\":5,\"exchange\":\"\"}",
     value |-> JObj(<< << "preference", JNum(5) >>, << "exchange", JStr("") >> >>)],
    [text |-> "{\"target\":\"https://acme.shop/\"}",
     value |-> JObj(<< << "target", JStr("https://acme.shop/") >> >>)],
    [text |-> "{\"priority\":0,\"port\":443}",
     value |-> JObj(<< << "priority", JNum(0) >>, << "port", JNum(443) >> >>)],
    [text |-> "{\"port\":443}",
     value |-> JObj(<< << "port", JNum(443) >> >>)] }

\* JSON.parse(text) returns (does not throw).
JSONparses(text) == \E d \in JsonDocs : d.text = text

\* JSON.parse(text), for a text it accepts.
JSONparse(text) == (CHOOSE d \in JsonDocs : d.text = text).value

\* String.prototype.trim on the values of the model: the values written with
\* surrounding white space, every other value is its own image.
trim(text) ==
  CASE text = "   " -> ""
    [] text = " {}" -> "{}"
    [] text = " [\"v=spf1\",\"-all\"] " -> "[\"v=spf1\",\"-all\"]"
    [] OTHER -> text

\* String.prototype.startsWith for the two prefixes the formatter asks about.
startsWith(text, prefix) ==
  CASE prefix = "{" ->
         text \in { d.text : d \in { x \in JsonDocs : x.value.t = "object" } }
                    \cup { "{bad" }
    [] prefix = "[" ->
         text \in { d.text : d \in { x \in JsonDocs : x.value.t = "array" } }
                    \cup { "[1,2" }
    [] OTHER -> FALSE

\* What stands for parsed when an exception left the speculative parse.
Thrown == [t |-> "throw"]

\* Variant of speculativeParse without the catch block.
speculativeParseNoCatch(value) ==
  LET trimmed == trim(value)
  IN  IF startsWith(trimmed, "{") \/ startsWith(trimmed, "[")
      THEN IF JSONparses(trimmed) THEN JSONparse(trimmed) ELSE Thrown
      ELSE JStr(value)

\* The speculative parse of formatRecordData: the parsed value, or the raw
\* string when the text does not start with '{' or '[' or JSON.parse throws.
speculativeParse(value) ==
  LET trimmed == trim(value)
  IN  IF (startsWith(trimmed, "{") \/ startsWith(trimmed, "[")) /\ JSONparses(trimmed)
      THEN JSONparse(trimmed)
      ELSE JStr(value)

OpaqueTypes == { "A", "AAAA", "CNAME", "NS", "PTR", "DNAME" }
TextListTypes == { "TXT", "SPF", "AVC", "NINFO" }
EmptyDefaultTypes ==
  { "SOA", "NAPTR", "LOC", "GPOS", "RP", "AFSDB",
    "DS", "DNSKEY", "RRSIG", "NSEC", "NSEC3", "NSEC3PARAM", "DLV", "CDS",
    "CDNSKEY", "TA", "KEY", "TLSA", "SMIMEA", "CERT", "SSHFP", "IPSECKEY",
    "TKEY", "TSIG", "SIG", "RKEY", "HIP", "CSYNC", "ZONEMD", "TALINK",
    "AMTRELAY" }
BlobTypes ==
  { "DHCID", "EID", "NIMLOC", "ATMA", "APL", "EUI48", "EUI64", "OPENPGPKEY" }

\* Variant of unchanged that trims the value.
unchangedTrimmed(value) == JStr(trim(value))

\* return value
unchanged(value) == JStr(value)

\* Variant of textList that returns every parsed value.
textListOfParsed(parsed, value) ==
  IF typeofObject(parsed) THEN parsed ELSE JArr(<< JStr(value) >>)

\* Array.isArray(parsed) ? parsed : [value]
textList(parsed, value) ==
  IF isArray(parsed) THEN parsed ELSE JArr(<< JStr(value) >>)

\* Variant of carries that asks for an object only.
carriesNothing(parsed, key) == typeofObject(parsed)

\* typeof parsed === 'object' && parsed[key]
carries(parsed, key) == typeofObject(parsed) /\ truthy(prop(parsed, key))

\* Variant of structured that takes the raw string for a structure.
structuredOrString(parsed) == TRUE

\* typeof parsed === 'object', in the branches of the structured types
structured(parsed) == typeofObject(parsed)

\* formatRecordData(type, value, priority): value is the stored string,
\* priority a JavaScript value (a number, or undefined when not given).
formatRecordData(type, value, priority) ==
  LET parsed == speculativeParse(value)
      t == toUpperCase(type)
  IN  CASE t \in OpaqueTypes -> unchanged(value)
        [] t \in TextListTypes ->
             textList(parsed, value)
        [] t \in { "MX", "KX" } ->
             IF carries(parsed, "exchange") THEN parsed
             ELSE JObj(<< << "preference", or(priority, JNum(10)) >>,
                          << "exchange", JStr(value) >> >>)
        [] t = "URI" ->
             IF carries(parsed, "target") THEN parsed
             ELSE JObj(<< << "priority", or(priority, JNum(10)) >>,
                          << "weight", JNum(1) >>,
                          << "target", JStr(value) >> >>)
        [] t = "PX" ->
             IF structured(parsed) THEN parsed
             ELSE JObj(<< << "preference", or(priority, JNum(0)) >>,
                          << "map822", JStr("") >>,
                          << "mapx400", JStr("") >> >>)
        [] t = "SRV" ->
             IF structured(parsed)
             THEN IF prop(parsed, "priority") = JUndefined
                  THEN setProp(parsed, "priority", or(priority, JNum(0)))
                  ELSE parsed
             ELSE JObj(<< << "priority", or(priority, JNum(0)) >>,
                          << "weight", JNum(0) >>,
                          << "port", JNum(0) >>,
                          << "target", JStr(value) >> >>)
        [] t \in { "HTTPS", "SVCB" } ->
             IF structured(parsed)
             THEN IF prop(parsed, "priority") = JUndefined /\ priority # JUndefined
                  THEN setProp(parsed, "priority", priority)
                  ELSE parsed
             ELSE JObj(<< << "priority", or(priority, JNum(1)) >>,
                          << "target", JStr(".") >>,
                          << "value", JObj(<< >>) >> >>)
        [] t = "CAA" ->
             IF structured(parsed) THEN parsed
             ELSE JObj(<< << "flags", JNum(0) >>,
                          << "tag", JStr("issue") >>,
                          << "value", JStr(value) >> >>)
        [] t = "HINFO" ->
             IF structured(parsed) THEN parsed
             ELSE JObj(<< << "cpu", JStr("INTEL-386") >>, << "os", JStr("UNIX") >> >>)
        [] t = "RT" ->
             IF structured(parsed) THEN parsed
             ELSE JObj(<< << "preference", or(priority, JNum(0)) >>,
                          << "intermediateHost", JStr(value) >> >>)
        [] t \in EmptyDefaultTypes ->
             IF structured(parsed) THEN parsed ELSE JObj(<< >>)
        [] t \in BlobTypes -> parsed
        [] OTHER -> unchanged(value)

\* --------------------------------------------------------------------------
\* The names of the model
\* --------------------------------------------------------------------------

www == << "w", "w", "w" >>
acme == << "a", "c", "m", "e" >>
shop == << "s", "h", "o", "p" >>
lab == << "l", "a", "b" >>
foo == << "f", "o", "o" >>
bar == << "b", "a", "r" >>
example == << "e", "x", "a", "m", "p", "l", "e" >>
apex == << "@" >>
star == << "*" >>

\* The question names a decoded query can carry.  The wire codec gives "."
\* for the root name; the empty string is what older codecs give for it.
QNames ==
  { www \o << "." >> \o acme \o << "." >> \o shop,
    << "W", "W", "W", "." >> \o << "A", "c", "m", "e", "." >> \o << "S", "h", "o", "p" >>,
    acme \o << "." >> \o shop,
    shop,
    foo \o << "." >> \o bar \o << "." >> \o example,
    acme \o << "." >> \o lab,
    << "." >>,
    << >> }

\* The names among them that answers are stored for.
AcmeNames ==
  { www \o << "." >> \o acme \o << "." >> \o shop,
    << "W", "W", "W", "." >> \o << "A", "c", "m", "e", "." >> \o << "S", "h", "o", "p" >>,
    acme \o << "." >> \o shop }

\* The question types of the model, as the codec names them.
QTypes == { "A", "MX", "ANY" }

\* --------------------------------------------------------------------------
\* The store (D1 tables, in row order) and the worker's bindings
\* --------------------------------------------------------------------------

VARIABLES
  tlds,         \* rows of table tlds: [name, owner_id, is_public, price]
  domains,      \* rows of table domains: [id, tld, name, owner_id]
  records,      \* rows of table records: [domain_id, type, host, value, priority, ttl]
  CUSTOM_TLDS,  \* env.CUSTOM_TLDS, the comma-separated system TLDs
  doh,          \* the /dns-query request being handled: its locals and response
  fmt,          \* a call of formatRecordData on its own: its arguments and result
  peer,         \* a second /dns-query request handled at the same time
  reg,          \* the /api/tld/register requests in flight, by connection
  listed        \* the body of the last /api/tlds response

vars == << tlds, domains, records, CUSTOM_TLDS, doh, fmt, peer, reg, listed >>

\* Table users: the ids of the registered accounts.
users == { "u1" }

\* owner_id values a management request can carry.
OwnerIds == { "u1", "u9" }

\* The values of the CUSTOM_TLDS binding of the model.
CustomTldsValues == { shop, << >> }

\* The contents of table tlds a deployment starts with: rows that
\* /api/tld/register has written (lower-case name, private, price 0).
TldTables ==
  { << >>,
    << [name |-> lab, owner_id |-> "u1", is_public |-> 0, price |-> 0] >> }

\* SELECT ... FROM tlds WHERE name=? ... first(): a row is found.
tldRowExists(name) == \E i \in 1..Len(tlds) : tlds[i].name = name

\* SELECT id FROM domains WHERE tld=? AND name=? ... first(): the id of the
\* first matching row, 0 when there is none (ids start at 1).
domainIdOf(tld, name) ==
  IF \E i \in 1..Len(domains) : domains[i].tld = tld /\ domains[i].name = name
  THEN domains[CHOOSE i \in 1..Len(domains) :
                 /\ domains[i].tld = tld /\ domains[i].name = name
                 /\ \A j \in 1..(i - 1) :
                      ~(domains[j].tld = tld /\ domains[j].name = name)].id
  ELSE 0

\* Variant of hostMatches without the wildcard.
hostMatchesExact(rowHost, host) == rowHost = host

\* host=? OR host='*'
hostMatches(rowHost, host) == rowHost = host \/ rowHost = star

\* SELECT type, value, priority, ttl FROM records
\* WHERE domain_id=? AND (host=? OR host='*') ... all(): the rows in row order.
RECURSIVE selectRecords(_, _, _)
selectRecords(rows, domainId, host) ==
  IF rows = << >> THEN << >>
  ELSE LET r == Head(rows)
           rest == selectRecords(Tail(rows), domainId, host)
       IN  IF r.domain_id = domainId /\ hostMatches(r.host, host)
           THEN << [type |-> r.type, value |-> r.value,
                    priority |-> r.priority, ttl |-> r.ttl] >> \o rest
           ELSE rest

\* The next AUTOINCREMENT id of table domains.
nextDomainId ==
  IF domains = << >> THEN 1
  ELSE 1 + (CHOOSE m \in { domains[i].id : i \in 1..Len(domains) } :
              \A i \in 1..Len(domains) : domains[i].id <= m)

\* DELETE FROM records WHERE domain_id=?
RECURSIVE deleteRecords(_, _)
deleteRecords(rows, domainId) ==
  IF rows = << >> THEN << >>
  ELSE IF Head(rows).domain_id = domainId THEN deleteRecords(Tail(rows), domainId)
  ELSE << Head(rows) >> \o deleteRecords(Tail(rows), domainId)

\* --------------------------------------------------------------------------
\* handleApi: the two endpoints that write the rows handleDoH reads.  Their
\* effect on the store is modelled; the status of their own HTTP response is
\* noted beside each branch.  A finished /dns-query response is handed back
\* (DoHReturn) before the next management request is taken up: a write after
\* the response is made changes nothing of it.
\* --------------------------------------------------------------------------

\* Largest number of entries of the records array of one /api/records/update.
MaxRecords == 2

\* JSON.stringify(value) for the object values of the model.
JSONstringify(value) == (CHOOSE d \in JsonDocs : d.value = value).text

\* The entries the records array of an update request is made of.  A missing
\* or empty field is written as the falsy value of its kind (type "", host "",
\* priority 0, ttl 0): the handler tells no difference.
RecordInputs ==
  << [type |-> "A", host |-> apex, value |-> JStr("203.0.113.5"), priority |-> 0, ttl |-> 0],
     [type |-> "A", host |-> www, value |-> JStr("198.51.100.7"), priority |-> 0, ttl |-> 60],
     [type |-> "", host |-> star, value |-> JStr("192.0.2.1"), priority |-> 0, ttl |-> 0],
     [type |-> "CNAME", host |-> www, value |-> JStr("alias.acme.shop"), priority |-> 0, ttl |-> 0],
     [type |-> "cname", host |-> www, value |-> JStr("alias.acme.shop"), priority |-> 0, ttl |-> 0],
     [type |-> "MX", host |-> << >>, value |-> JStr("mail.acme.shop"), priority |-> 20, ttl |-> 0],
     [type |-> "A", host |-> www, value |-> JStr("   "), priority |-> 0, ttl |-> 0] >>

\* The entries of RecordInputs at the positions of pick, in that order.
RECURSIVE pickInputs(_, _)
pickInputs(pick, i) ==
  IF i > Len(RecordInputs) THEN << >>
  ELSE IF i \in pick THEN << RecordInputs[i] >> \o pickInputs(pick, i + 1)
  ELSE pickInputs(pick, i + 1)

\* The records arrays of the update requests of the model: up to MaxRecords
\* entries of RecordInputs.
RecordLists ==
  { pickInputs(pick, 1) :
      pick \in { q \in SUBSET (1..Len(RecordInputs)) : Cardinality(q) <= MaxRecords } }

\* Variant of valToStore that stores String(r.value) for every value.
valToStoreString(value) ==
  IF typeofObject(value) THEN "[object Object]" ELSE value.s

\* The string an update stores for r.value.
valToStore(value) ==
  IF typeofObject(value) THEN JSONstringify(value) ELSE value.s

\* The rows one update inserts for its records array, in array order; an
\* entry whose value is blank is skipped.
RECURSIVE insertedRows(_, _)
insertedRows(domainId, list) ==
  IF list = << >> THEN << >>
  ELSE LET r == Head(list)
           v == valToStore(r.value)
           rest == insertedRows(domainId, Tail(list))
       IN  IF v # "" /\ trim(v) # ""
           THEN << [domain_id |-> domainId,
                    type |-> IF r.type # "" THEN r.type ELSE "A",
                    host |-> IF r.host # << >> THEN r.host ELSE apex,
                    value |-> v,
                    priority |-> r.priority,
                    ttl |-> IF r.ttl # 0 THEN r.ttl ELSE 300] >> \o rest
           ELSE rest

\* SELECT owner_id FROM domains WHERE id=? ... first(): the owner, "" when
\* there is no such row.
domainOwner(domainId) ==
  IF \E i \in 1..Len(domains) : domains[i].id = domainId
  THEN domains[CHOOSE i \in 1..Len(domains) : domains[i].id = domainId].owner_id
  ELSE ""

\* POST /api/domain/register with body {name, tld, owner_id}.
DomainRegister(name, tld, owner_id) ==
  /\ doh.pc # "done"
  /\ IF name = << >> \/ tld = << >> \/ owner_id = ""
     THEN UNCHANGED << domains, records >>            \* 400
     ELSE IF owner_id \notin users
     THEN UNCHANGED << domains, records >>            \* 401
     ELSE IF domainIdOf(tld, name) # 0
     THEN UNCHANGED << domains, records >>            \* 409
     ELSE LET id == nextDomainId
          IN  /\ domains' = Append(domains,
                   [id |-> id, tld |-> tld, name |-> name, owner_id |-> owner_id])
              /\ records' = Append(records,
                   [domain_id |-> id, type |-> "A", host |-> apex,
                    value |-> "127.0.0.1", priority |-> 0, ttl |-> 300])
  /\ UNCHANGED << tlds, CUSTOM_TLDS, doh, fmt, peer, reg, listed >>

\* POST /api/records/update with body {domain_id, owner_id, records}.
RecordsUpdate(domain_id, owner_id, list) ==
  /\ doh.pc # "done"
  /\ IF domain_id = 0 \/ owner_id = ""
     THEN UNCHANGED records                           \* 400
     ELSE IF domainOwner(domain_id) = "" \/ domainOwner(domain_id) # owner_id
     THEN UNCHANGED records                           \* 403
     ELSE records' = deleteRecords(records, domain_id) \o insertedRows(domain_id, list)
  /\ UNCHANGED << tlds, domains, CUSTOM_TLDS, doh, fmt, peer, reg, listed >>

\* --------------------------------------------------------------------------
\* The wire codec (dns-packet), HTTP responses, the upstream resolvers
\* --------------------------------------------------------------------------

\* The bytes that are the wire form of a DNS message.
encode(msg) == [kind |-> "wire", msg |-> msg]

\* Bytes that are no DNS message.
Garbage == [kind |-> "garbage"]

\* dnsPacket.decode(buf) returns (does not throw).
decodes(buf) == buf.kind = "wire"

\* dnsPacket.decode(buf), for bytes it accepts.
decode(buf) == buf.msg

\* The questions of the model: an A question for every name, every type for
\* the names under acme.shop.
Questions ==
  { [name |-> n, type |-> "A", class |-> "IN"] : n \in QNames }
  \cup { [name |-> n, type |-> t, class |-> "IN"] : n \in AcmeNames, t \in QTypes }

Query(id, questions) == [type |-> "query", id |-> id, questions |-> questions]

\* The inbound queries: no question, or one question.
Queries ==
  { Query(7, << >>) }
  \cup { Query(7, << q >>) : q \in Questions }
  \cup { Query(9, << [name |-> acme \o << "." >> \o shop, type |-> "A", class |-> "IN"] >>) }

\* The /dns-query requests of the model; the provider key is what the
\* dispatcher passes (parts[2] || 'google').
Requests ==
  { [method |-> "POST", body |-> encode(q), provider |-> "cf"] : q \in Queries }
  \cup { [method |-> "POST", body |-> Garbage, provider |-> "google"],
         [method |-> "GET", body |-> Garbage, provider |-> "google"] }
  \cup { [method |-> "POST", provider |-> p,
           body |-> encode(Query(9, << [name |-> example, type |-> "A", class |-> "IN"] >>))] :
           p \in { "google", "quad9", "nope", "constructor" } }

\* The corsHeaders the dispatcher passes to the handlers.
CorsHeaders ==
  { << "Access-Control-Allow-Origin", "*" >>,
    << "Access-Control-Allow-Methods", "GET, POST, OPTIONS, PUT, DELETE" >>,
    << "Access-Control-Allow-Headers", "Content-Type, Authorization, x-owner-id" >> }

\* { ...headers, [name]: value }
withHeader(headers, name, value) ==
  { h \in headers : h[1] # name } \cup { << name, value >> }

TextBody(text) == [kind |-> "text", text |-> text]

\* new Response(text, { status, headers }): a string body gets the text/plain
\* content type when the headers name none.
textResponse(text, status, headers) ==
  [status |-> status,
   body |-> TextBody(text),
   headers |-> IF \E h \in headers : h[1] = "Content-Type" THEN headers
               ELSE headers \cup { << "Content-Type", "text/plain;charset=UTF-8" >> }]

NoResponse == [status |-> 0, body |-> [kind |-> "none"], headers |-> { }]

\* UPSTREAM_RESOLVERS[key]: the mapped endpoint, a property every object
\* inherits, or undefined.
UPSTREAM_RESOLVERS(key) ==
  CASE key = "google" -> JStr("https://8.8.8.8/dns-query")
    [] key = "cf" -> JStr("https://1.1.1.1/dns-query")
    [] key = "quad9" -> JStr("https://9.9.9.9/dns-query")
    [] key \in { "constructor", "toString", "valueOf", "hasOwnProperty" } ->
         [t |-> "function"]
    [] OTHER -> JUndefined

\* What the upstream can answer: its status, body and content type.
UpstreamReplies ==
  { [status |-> 200, body |-> [kind |-> "upstream", tag |-> "answer"],
     ctype |-> "application/dns-message"],
    [status |-> 400, body |-> [kind |-> "upstream", tag |-> "bad request"],
     ctype |-> "text/html"],
    [status |-> 502, body |-> [kind |-> "upstream", tag |-> "bad gateway"],
     ctype |-> "application/dns-message"] }

NoReply == [status |-> 0, body |-> [kind |-> "none"], ctype |-> ""]
NoFetch == [url |-> JUndefined, method |-> "", headers |-> { }, body |-> [kind |-> "none"]]
NoQuestion == [name |-> << >>, type |-> "", class |-> ""]

\* --------------------------------------------------------------------------
\* handleDoH
\* --------------------------------------------------------------------------

\* The handler before a request: every local unset.
Idle ==
  [pc |-> "idle", method |-> "", body |-> [kind |-> "none"], provider |-> "",
   query |-> [type |-> "", id |-> 0, questions |-> << >>],
   question |-> NoQuestion, parts |-> << >>, tld |-> << >>,
   tldRecord |-> FALSE, isSystemTld |-> FALSE,
   domainName |-> << >>, host |-> << >>, domainRecord |-> 0,
   results |-> << >>, answers |-> << >>,
   fetchReq |-> NoFetch, upstream |-> NoReply,
   err |-> "none", io |-> << >>, resp |-> NoResponse]

\* return resp
return(h, resp) == [h EXCEPT !.pc = "done", !.resp = resp]

\* Variant of catch that answers with an empty wire response.
catchAnswersEmpty(h, e) ==
  [h EXCEPT !.pc = "done", !.err = e,
            !.resp = [status |-> 200,
                      body |-> encode([type |-> "response", id |-> h.query.id,
                                       flags |-> "AUTHORITATIVE_ANSWER",
                                       questions |-> h.query.questions,
                                       answers |-> << >>]),
                      headers |-> CorsHeaders]]

\* catch (e): Server Error, 500; e names what threw.
catch(h, e) ==
  [h EXCEPT !.pc = "done", !.err = e,
            !.resp = textResponse("Server Error", 500, CorsHeaders)]

\* Variant of noQuestion that also refuses the root name.
noQuestionOrRootName(query) ==
  \/ query.questions = << >>
  \/ query.questions[1].name \in { << "." >>, << >> }

\* !question, for question = query.questions?.[0]
noQuestion(query) == query.questions = << >>

\* const tld = parts[parts.length - 1]
lastPart(parts) == at(parts, Len(parts) - 1)

\* env.CUSTOM_TLDS.split(',').includes(tld)
systemTld(custom, tld) == includes(split(custom, ","), tld)

\* Variant of unmanaged that forgets the system TLDs.
unmanagedStoreOnly(tldRecord, isSystemTld) == ~tldRecord

\* Variant of unmanaged that looks at the system TLD set only.
unmanagedSystemOnly(tldRecord, isSystemTld) == ~isSystemTld

\* !tldRecord && !isSystemTld
unmanaged(tldRecord, isSystemTld) == ~tldRecord /\ ~isSystemTld

\* Variant of domainPart that takes the last part.
domainPartLast(parts) == at(parts, Len(parts) - 1)

\* const domainName = parts[parts.length - 2]
domainPart(parts) == at(parts, Len(parts) - 2)

\* Variant of hostOf whose host parts run up to the last part.
hostOfWithDomain(parts) ==
  LET hostParts == slice(parts, Len(parts) - 1)
  IN  IF Len(hostParts) > 0 THEN join(hostParts, ".") ELSE apex

\* hostParts.length > 0 ? hostParts.join('.') : '@'
hostOf(parts) ==
  LET hostParts == slice(parts, Len(parts) - 2)
  IN  IF Len(hostParts) > 0 THEN join(hostParts, ".") ELSE apex

\* Variant of kept without the ANY rule.
keptExactOrCname(r, qtype) == r.type = qtype \/ r.type = "CNAME"

\* Variant of kept without the CNAME rule.
keptNoCname(r, qtype) == r.type = qtype \/ qtype = "ANY"

\* The filter of the fetched rows.
kept(r, qtype) == r.type = qtype \/ qtype = "ANY" \/ r.type = "CNAME"

\* The ttl of a row that was inserted without one (SQL NULL, read as null):
\* no stored ttl is negative.
NoTtl == -1

\* recordTtl || 300
ttlOf(recordTtl) == IF recordTtl # NoTtl /\ recordTtl # 0 THEN recordTtl ELSE 300

\* The answer made of one fetched row.
answerOf(r, question) ==
  [type |-> r.type, class |-> "IN", name |-> question.name,
   data |-> formatRecordData(r.type, r.value, JNum(r.priority)),
   ttl |-> ttlOf(r.ttl)]

\* results.filter(...).map(...)
answersOf(results, question) ==
  LET rows == SelectSeq(results, LAMBDA r : kept(r, question.type))
  IN  [i \in 1..Len(rows) |-> answerOf(rows[i], question)]

\* The body the upstream is sent.
upstreamBody(buf) == buf

\* The fetch of the proxy path.
fetchOf(provider, buf) ==
  [url |-> or(UPSTREAM_RESOLVERS(provider), UPSTREAM_RESOLVERS("google")),
   method |-> "POST",
   headers |-> { << "Content-Type", "application/dns-message" >> },
   body |-> upstreamBody(buf)]

\* Variant of proxyResponse that answers 200 whatever the upstream's status.
proxyResponseOk(reply) ==
  [status |-> 200,
   body |-> reply.body,
   headers |-> withHeader(CorsHeaders, "Content-Type", "application/dns-message")]

\* The response of the proxy path for the upstream's reply.
proxyResponse(reply) ==
  [status |-> reply.status,
   body |-> reply.body,
   headers |-> withHeader(CorsHeaders, "Content-Type", "application/dns-message")]

\* Variant of wireResponse that does not echo the id of the query.
wireResponseZeroId(query, answers) ==
  [status |-> 200,
   body |-> encode([type |-> "response", id |-> 0,
                    flags |-> "AUTHORITATIVE_ANSWER",
                    questions |-> query.questions, answers |-> answers]),
   headers |-> withHeader(CorsHeaders, "Content-Type", "application/dns-message")]

\* Variant of wireResponse that answers 404 when there is no answer.
wireResponseNotFound(query, answers) ==
  [status |-> IF answers = << >> THEN 404 ELSE 200,
   body |-> encode([type |-> "response", id |-> query.id,
                    flags |-> "AUTHORITATIVE_ANSWER",
                    questions |-> query.questions, answers |-> answers]),
   headers |-> withHeader(CorsHeaders, "Content-Type", "application/dns-message")]

\* dnsPacket.encode({...}) and the response that carries it.
wireResponse(query, answers) ==
  [status |-> 200,
   body |-> encode([type |-> "response", id |-> query.id,
                    flags |-> "AUTHORITATIVE_ANSWER",
                    questions |-> query.questions, answers |-> answers]),
   headers |-> withHeader(CorsHeaders, "Content-Type", "application/dns-message")]

\* The handler from the request to the read of table tlds and what follows it
\* up to the next await: a response, the upstream fetch, or the read of table
\* domains.  dbOk: the read of tlds does not throw.
start(req, dbOk) ==
  LET h0 == [Idle EXCEPT !.method = req.method, !.body = req.body,
                         !.provider = req.provider]
  IN  IF req.method # "POST"
      THEN return(h0, textResponse("Method Not Allowed", 405, CorsHeaders))
      ELSE IF ~decodes(req.body) THEN catch(h0, "decode")
      ELSE LET query == decode(req.body)
               h1 == [h0 EXCEPT !.query = query]
           IN  IF noQuestion(query)
               THEN return(h1, textResponse("Invalid Query", 400, CorsHeaders))
               ELSE LET question == query.questions[1]
                        parts == split(toLowerCase(question.name), ".")
                        tld == lastPart(parts)
                        h2 == [h1 EXCEPT !.question = question, !.parts = parts,
                                         !.tld = tld, !.io = << "tlds" >>]
                    IN  IF ~dbOk THEN catch(h2, "db")
                        ELSE LET tldRecord == tldRowExists(tld)
                                 isSystemTld == systemTld(CUSTOM_TLDS, tld)
                                 h3 == [h2 EXCEPT !.tldRecord = tldRecord,
                                                  !.isSystemTld = isSystemTld]
                             IN  IF unmanaged(tldRecord, isSystemTld)
                                 THEN [h3 EXCEPT !.pc = "fetch",
                                         !.fetchReq = fetchOf(req.provider, req.body),
                                         !.io = << "tlds", "fetch" >>]
                                 ELSE LET domainName == domainPart(parts)
                                          h4 == [h3 EXCEPT !.domainName = domainName]
                                      IN  IF domainName = << >>
                                          THEN return(h4, textResponse("NXDOMAIN", 404, { }))
                                          ELSE [h4 EXCEPT !.pc = "domain",
                                                          !.host = hostOf(parts)]

\* A /dns-query request arrives; the handler runs to its first pending await.
DoHStart(req, dbOk) ==
  /\ doh.pc = "idle"
  /\ doh' = start(req, dbOk)
  /\ UNCHANGED << tlds, domains, records, CUSTOM_TLDS, fmt, peer, reg, listed >>

\* The handler after the upstream fetch: the relayed reply, or the catch when
\* fetch throws (the upstream is unreachable, or the url is no string).
fetchReply(h, reply, ok) ==
  IF ok /\ h.fetchReq.url.t = "string"
  THEN return([h EXCEPT !.upstream = reply], proxyResponse(reply))
  ELSE catch(h, "fetch")

\* The upstream fetch settles: with a reply, or by throwing.
DoHFetchReply(reply, ok) ==
  /\ doh.pc = "fetch"
  /\ doh' = fetchReply(doh, reply, ok)
  /\ UNCHANGED << tlds, domains, records, CUSTOM_TLDS, fmt, peer, reg, listed >>

\* The response of the authoritative path; encOk: dnsPacket.encode does not throw.
respond(h, answers, encOk) ==
  IF encOk THEN return([h EXCEPT !.answers = answers], wireResponse(h.query, answers))
  ELSE catch([h EXCEPT !.answers = answers], "encode")

\* The handler from the read of table domains to the next await or response.
domainRead(h0, dbOk, encOk) ==
  LET h == [h0 EXCEPT !.io = Append(@, "domains")]
  IN  IF ~dbOk THEN catch(h, "db")
      ELSE LET id == domainIdOf(h0.tld, h0.domainName)
           IN  IF id = 0 THEN respond(h, << >>, encOk)
               ELSE [h EXCEPT !.pc = "records", !.domainRecord = id]

\* The read of table domains settles.
DoHDomainRead(dbOk, encOk) ==
  /\ doh.pc = "domain"
  /\ doh' = domainRead(doh, dbOk, encOk)
  /\ UNCHANGED << tlds, domains, records, CUSTOM_TLDS, fmt, peer, reg, listed >>

\* The handler from the read of table records to its response.
recordsRead(h0, dbOk, encOk) ==
  LET h == [h0 EXCEPT !.io = Append(@, "records")]
  IN  IF ~dbOk THEN catch(h, "db")
      ELSE LET results == selectRecords(records, h0.domainRecord, h0.host)
           IN  respond([h EXCEPT !.results = results],
                       answersOf(results, h0.question), encOk)

\* The read of table records settles; the answers are made and encoded.
DoHRecordsRead(dbOk, encOk) ==
  /\ doh.pc = "records"
  /\ doh' = recordsRead(doh, dbOk, encOk)
  /\ UNCHANGED << tlds, domains, records, CUSTOM_TLDS, fmt, peer, reg, listed >>

\* The response is handed back to the dispatcher; the request is over.
DoHReturn ==
  /\ doh.pc = "done"
  /\ doh' = Idle
  /\ UNCHANGED << tlds, domains, records, CUSTOM_TLDS, fmt, peer, reg, listed >>

\* --------------------------------------------------------------------------
\* The specification
\* --------------------------------------------------------------------------

\* No /api/tld/register request in flight; no /api/tlds response yet.
Connections == { 1, 2 }
NoReg == [pc |-> "idle", name |-> << >>, owner_id |-> "", status |-> 0]
NoRegs == [c \in Connections |-> NoReg]
NotListed == [done |-> FALSE, body |-> << >>]

\* No call of formatRecordData on its own.
NoCall ==
  [pc |-> "none", v |-> JUndefined, type |-> "", value |-> "",
   priority |-> JUndefined, out |-> JUndefined]

Init ==
  /\ tlds \in TldTables
  /\ domains = << >>
  /\ records = << >>
  /\ CUSTOM_TLDS \in CustomTldsValues
  /\ doh = Idle
  /\ peer = Idle
  /\ reg = NoRegs
  /\ listed = NotListed
  /\ fmt = NoCall

Next ==
  \/ \E name \in { acme, << >> }, owner_id \in OwnerIds :
       DomainRegister(name, shop, owner_id)
  \/ \E list \in RecordLists : RecordsUpdate(1, "u1", list)
  \/ \E domain_id \in { 0, 1 }, owner_id \in OwnerIds :
       RecordsUpdate(domain_id, owner_id, << >>)
  \/ \E req \in Requests, dbOk \in BOOLEAN : DoHStart(req, dbOk)
  \/ \E reply \in UpstreamReplies, ok \in BOOLEAN : DoHFetchReply(reply, ok)
  \/ \E dbOk \in BOOLEAN, encOk \in BOOLEAN : DoHDomainRead(dbOk, encOk)
  \/ \E dbOk \in BOOLEAN, encOk \in BOOLEAN : DoHRecordsRead(dbOk, encOk)
  \/ DoHReturn

Spec == Init /\ [][Next]_vars

\* --------------------------------------------------------------------------
\* handleDoH over a store it finds: table records holds rows that were written
\* before the worker's present code (rows inserted without a ttl) or beside it
\* (the worker creates no table and is not the database's only writer), for
\* the registered domain acme.shop.
\* --------------------------------------------------------------------------

\* Largest number of rows of table records in a store that is found.
MaxSeeded == 2

SeededDomains == << [id |-> 1, tld |-> shop, name |-> acme, owner_id |-> "u1"] >>

\* The rows such a table is made of, in row order.
SeededRows ==
  << [domain_id |-> 1, type |-> "A", host |-> apex, value |-> "203.0.113.5",
      priority |-> 0, ttl |-> 0],
     [domain_id |-> 1, type |-> "A", host |-> apex, value |-> "198.51.100.7",
      priority |-> 0, ttl |-> NoTtl],
     [domain_id |-> 1, type |-> "A", host |-> www, value |-> "192.0.2.1",
      priority |-> 0, ttl |-> 60],
     [domain_id |-> 1, type |-> "SRV", host |-> apex, value |-> "{bad",
      priority |-> 0, ttl |-> 300],
     [domain_id |-> 1, type |-> "MX", host |-> apex, value |-> "mail.acme.shop",
      priority |-> 0, ttl |-> 300],
     [domain_id |-> 1, type |-> "SOA", host |-> apex, value |-> "ns.acme.shop",
      priority |-> 0, ttl |-> 300],
     [domain_id |-> 1, type |-> "HINFO", host |-> apex, value |-> "[1,2",
      priority |-> 0, ttl |-> 300],
     [domain_id |-> 1, type |-> "CAA", host |-> apex, value |-> "letsencrypt.org",
      priority |-> 0, ttl |-> 300] >>

\* The rows of SeededRows at the positions of pick, in that order.
RECURSIVE pickRows(_, _)
pickRows(pick, i) ==
  IF i > Len(SeededRows) THEN << >>
  ELSE IF i \in pick THEN << SeededRows[i] >> \o pickRows(pick, i + 1)
  ELSE pickRows(pick, i + 1)

SeededTables ==
  { pickRows(pick, 1) :
      pick \in { q \in SUBSET (1..Len(SeededRows)) : Cardinality(q) <= MaxSeeded } }

InitSeeded ==
  /\ tlds = << >>
  /\ domains = SeededDomains
  /\ records \in SeededTables
  /\ CUSTOM_TLDS = shop
  /\ doh = Idle
  /\ peer = Idle
  /\ reg = NoRegs
  /\ listed = NotListed
  /\ fmt = NoCall

NextSeeded ==
  \/ \E req \in Requests, dbOk \in BOOLEAN : DoHStart(req, dbOk)
  \/ \E reply \in UpstreamReplies, ok \in BOOLEAN : DoHFetchReply(reply, ok)
  \/ \E dbOk \in BOOLEAN, encOk \in BOOLEAN : DoHDomainRead(dbOk, encOk)
  \/ \E dbOk \in BOOLEAN, encOk \in BOOLEAN : DoHRecordsRead(dbOk, encOk)
  \/ DoHReturn

SpecSeeded == InitSeeded /\ [][NextSeeded]_vars

\* --------------------------------------------------------------------------
\* formatRecordData on its own: a call with a stored string, and a call with
\* the string /api/records/update stores for a structured value.
\* --------------------------------------------------------------------------

\* The type tags of the calls.
FormatTypes ==
  { "A", "CNAME", "cname", "XYZ", "xyz", "TXT", "txt", "MX", "mx", "KX", "URI",
    "PX", "SRV", "srv", "SOA", "HTTPS", "CAA", "HINFO", "RT", "TLSA", "DHCID" }

\* The stored strings of the calls: plain strings, the JSON texts, a JSON
\* text with white space around it, and texts that start like JSON and are not.
FormatValues ==
  { "mail.acme.shop", " {}", "{bad", "[1,2" } \cup { d.text : d \in JsonDocs }

\* The priority argument: not given, or the number of the row.
FormatPriorities == { JUndefined, JNum(0), JNum(20) }

\* The priority of a stored row: Number(r.priority) || 0.
StoredPriorities == { JNum(0), JNum(20) }

\* An exception leaves formatRecordData: the statements that can throw for
\* string arguments are those of the speculative parse.
raises(type, value) == speculativeParse(value) = Thrown

InitFormat ==
  /\ tlds = << >>
  /\ domains = << >>
  /\ records = << >>
  /\ CUSTOM_TLDS = << >>
  /\ doh = Idle
  /\ peer = Idle
  /\ reg = NoRegs
  /\ listed = NotListed
  /\ fmt \in { [pc |-> "call", v |-> JUndefined, type |-> type, value |-> value,
                 priority |-> priority, out |-> JUndefined] :
                 type \in FormatTypes, value \in FormatValues,
                 priority \in FormatPriorities }
          \cup { [pc |-> "update", v |-> d.value, type |-> type, value |-> "",
                  priority |-> priority, out |-> JUndefined] :
                  d \in JsonDocs, type \in FormatTypes,
                  priority \in StoredPriorities }

\* /api/records/update stores the structured value of an entry.
StoreValue ==
  /\ fmt.pc = "update"
  /\ fmt' = [fmt EXCEPT !.pc = "call", !.value = valToStore(fmt.v)]
  /\ UNCHANGED << tlds, domains, records, CUSTOM_TLDS, doh, peer, reg, listed >>

\* formatRecordData(type, value, priority) runs.
Format ==
  /\ fmt.pc = "call"
  /\ fmt' = IF raises(fmt.type, fmt.value)
            THEN [fmt EXCEPT !.pc = "threw"]
            ELSE [fmt EXCEPT !.pc = "returned",
                             !.out = formatRecordData(fmt.type, fmt.value, fmt.priority)]
  /\ UNCHANGED << tlds, domains, records, CUSTOM_TLDS, doh, peer, reg, listed >>

NextFormat == StoreValue \/ Format

SpecFormat == InitFormat /\ [][NextFormat]_vars

\* --------------------------------------------------------------------------
\* Two /dns-query requests handled at the same time.  A Worker isolate runs
\* several invocations of handleDoH interleaved at their awaits; peer holds
\* the locals of the second invocation.
\* --------------------------------------------------------------------------

\* The requests of the two invocations: a GET, a body that is no message, a
\* query without question, and A queries for acme.shop, www.acme.shop, shop
\* and foo.bar.example.
PairRequests ==
  { r \in Requests :
      \/ r.body = Garbage
      \/ /\ r.provider = "cf" /\ r.body.msg.id = 7
         /\ \/ r.body.msg.questions = << >>
            \/ /\ r.body.msg.questions[1].type = "A"
               /\ r.body.msg.questions[1].name \in
                    { acme \o << "." >> \o shop,
                      www \o << "." >> \o acme \o << "." >> \o shop,
                      shop,
                      foo \o << "." >> \o bar \o << "." >> \o example } }

\* Variant of PeerStart in which the question is held in a variable of the
\* module, which both invocations assign and read.
PeerStartSharedQuestion(req, dbOk) ==
  /\ peer.pc = "idle"
  /\ peer' = start(req, dbOk)
  /\ doh' = IF doh.pc \in { "domain", "records" }
            THEN [doh EXCEPT !.question = peer'.question, !.host = peer'.host]
            ELSE doh
  /\ UNCHANGED << tlds, domains, records, CUSTOM_TLDS, fmt, reg, listed >>

\* The second request arrives; its handler runs to its first pending await.
PeerStart(req, dbOk) ==
  /\ peer.pc = "idle"
  /\ peer' = start(req, dbOk)
  /\ UNCHANGED << tlds, domains, records, CUSTOM_TLDS, doh, fmt, reg, listed >>

PeerFetchReply(reply, ok) ==
  /\ peer.pc = "fetch"
  /\ peer' = fetchReply(peer, reply, ok)
  /\ UNCHANGED << tlds, domains, records, CUSTOM_TLDS, doh, fmt, reg, listed >>

PeerDomainRead(dbOk, encOk) ==
  /\ peer.pc = "domain"
  /\ peer' = domainRead(peer, dbOk, encOk)
  /\ UNCHANGED << tlds, domains, records, CUSTOM_TLDS, doh, fmt, reg, listed >>

PeerRecordsRead(dbOk, encOk) ==
  /\ peer.pc = "records"
  /\ peer' = recordsRead(peer, dbOk, encOk)
  /\ UNCHANGED << tlds, domains, records, CUSTOM_TLDS, doh, fmt, reg, listed >>

PeerReturn ==
  /\ peer.pc = "done"
  /\ peer' = Idle
  /\ UNCHANGED << tlds, domains, records, CUSTOM_TLDS, doh, fmt, reg, listed >>

\* The store the two requests find: shop is a system TLD, acme.shop is
\* registered, and table records holds at most one row.
InitPair ==
  /\ tlds = << >>
  /\ domains = SeededDomains
  /\ records \in { t \in SeededTables : Len(t) <= 1 }
  /\ CUSTOM_TLDS = shop
  /\ doh = Idle
  /\ peer = Idle
  /\ reg = NoRegs
  /\ listed = NotListed
  /\ fmt = NoCall

NextPair ==
  \/ \E req \in PairRequests, dbOk \in BOOLEAN : DoHStart(req, dbOk)
  \/ \E reply \in UpstreamReplies, ok \in BOOLEAN : DoHFetchReply(reply, ok)
  \/ \E dbOk \in BOOLEAN, encOk \in BOOLEAN : DoHDomainRead(dbOk, encOk)
  \/ \E dbOk \in BOOLEAN, encOk \in BOOLEAN : DoHRecordsRead(dbOk, encOk)
  \/ DoHReturn
  \/ \E req \in PairRequests, dbOk \in BOOLEAN : PeerStart(req, dbOk)
  \/ \E reply \in UpstreamReplies, ok \in BOOLEAN : PeerFetchReply(reply, ok)
  \/ \E dbOk \in BOOLEAN, encOk \in BOOLEAN : PeerDomainRead(dbOk, encOk)
  \/ \E dbOk \in BOOLEAN, encOk \in BOOLEAN : PeerRecordsRead(dbOk, encOk)
  \/ PeerReturn

SpecPair == InitPair /\ [][NextPair]_vars

\* --------------------------------------------------------------------------
\* handleApi: /api/tld/register, in its version with the administrator's
\* privileges.  A request runs from await to await, and requests of different
\* connections interleave at their awaits.
\* --------------------------------------------------------------------------

FIXED_ADMIN_ID == "058779fb-989a-4b0e-a26d-b21d3bf1c238"

\* The members of RESERVED_ICANN_TLDS among the names of the model.
RESERVED_ICANN_TLDS == { shop, example }

\* SELECT tld_limit FROM users WHERE id = ?: the limit of the rows of users.
tldLimitOf(id) == 1

\* String.prototype.trim, for the space character.
RECURSIVE trimStart(_)
trimStart(s) == IF s # << >> /\ Head(s) = " " THEN trimStart(Tail(s)) ELSE s
RECURSIVE trimEnd(_)
trimEnd(s) ==
  IF s # << >> /\ s[Len(s)] = " " THEN trimEnd(SubSeq(s, 1, Len(s) - 1)) ELSE s
trimChars(s) == trimEnd(trimStart(s))

\* /^[a-z0-9-]+$/.test(s)
LabelChars ==
  { "a", "b", "c", "d", "e", "f", "g", "h", "i", "j", "k", "l", "m", "n", "o",
    "p", "q", "r", "s", "t", "u", "v", "w", "x", "y", "z", "0", "1", "2", "3",
    "4", "5", "6", "7", "8", "9", "-" }
isLabel(s) == s # << >> /\ \A i \in 1..Len(s) : s[i] \in LabelChars

\* The names and owner ids a registration request can carry; the empty name
\* and the empty owner id stand for a missing field.
RegNames ==
  { lab, << "L", "a", "b", " " >>, acme, shop, example, << "x" >>,
    << "a", ".", "b" >>, << >> }
RegOwners == { "u1", "u9", FIXED_ADMIN_ID, "" }

\* return errorResponse(..., status) / return jsonResponse(..., 200)
regDone(r, status) == [r EXCEPT !.pc = "done", !.status = status]

\* The handler from the request to its first read of the store.
registerStart(name, owner_id) ==
  LET r0 == [NoReg EXCEPT !.owner_id = owner_id]
  IN  IF name = << >> THEN regDone(r0, 400)
      ELSE IF owner_id = "" THEN regDone(r0, 401)
      ELSE LET lowerName == trimChars(toLowerCase(name))
               r1 == [r0 EXCEPT !.name = lowerName]
           IN  IF indexOf(lowerName, ".") # 0 THEN regDone(r1, 400)
               ELSE IF Len(lowerName) < 2 THEN regDone(r1, 400)
               ELSE IF Len(lowerName) > 63 THEN regDone(r1, 400)
               ELSE IF ~isLabel(lowerName) THEN regDone(r1, 400)
               ELSE IF owner_id # FIXED_ADMIN_ID
               THEN IF lowerName \in RESERVED_ICANN_TLDS THEN regDone(r1, 403)
                    ELSE [r1 EXCEPT !.pc = "user"]
               ELSE [r1 EXCEPT !.pc = "exists"]

\* SELECT COUNT(*) as count FROM tlds WHERE owner_id = ?
tldCountOf(owner_id) == Cardinality({ i \in 1..Len(tlds) : tlds[i].owner_id = owner_id })

\* (exists || isSystem) && owner_id !== FIXED_ADMIN_ID
taken(exists, isSystem, owner_id) == (exists \/ isSystem) /\ owner_id # FIXED_ADMIN_ID

\* The rows of table tlds without those of the given name.
RECURSIVE withoutTld(_, _)
withoutTld(rows, name) ==
  IF rows = << >> THEN << >>
  ELSE IF Head(rows).name = name THEN withoutTld(Tail(rows), name)
  ELSE << Head(rows) >> \o withoutTld(Tail(rows), name)

\* INSERT OR REPLACE INTO tlds (name, owner_id, is_public, created_at, config):
\* name is the key of the table, so a row of that name is replaced.
insertOrReplaceTld(rows, name, owner_id) ==
  Append(withoutTld(rows, name),
         [name |-> name, owner_id |-> owner_id, is_public |-> 0, price |-> 0])

\* A registration request arrives on connection c.
RegStart(c, name, owner_id) ==
  /\ reg[c].pc = "idle"
  /\ reg' = [reg EXCEPT ![c] = registerStart(name, owner_id)]
  /\ UNCHANGED << tlds, domains, records, CUSTOM_TLDS, doh, fmt, peer, listed >>

\* The read of table users settles; dbOk: it does not throw.
RegUserRead(c, dbOk) ==
  /\ reg[c].pc = "user"
  /\ reg' = [reg EXCEPT ![c] =
               IF ~dbOk THEN regDone(@, 500)
               ELSE IF @.owner_id \notin users THEN regDone(@, 401)
               ELSE [@ EXCEPT !.pc = "count"]]
  /\ UNCHANGED << tlds, domains, records, CUSTOM_TLDS, doh, fmt, peer, listed >>

\* The count of the owner's TLDs settles.
RegCountRead(c, dbOk) ==
  /\ reg[c].pc = "count"
  /\ reg' = [reg EXCEPT ![c] =
               IF ~dbOk THEN regDone(@, 500)
               ELSE IF tldCountOf(@.owner_id) >= tldLimitOf(@.owner_id)
               THEN regDone(@, 403)
               ELSE [@ EXCEPT !.pc = "exists"]]
  /\ UNCHANGED << tlds, domains, records, CUSTOM_TLDS, doh, fmt, peer, listed >>

\* The read of table tlds for the name settles.
RegExistsRead(c, dbOk) ==
  /\ reg[c].pc = "exists"
  /\ reg' = [reg EXCEPT ![c] =
               IF ~dbOk THEN regDone(@, 500)
               ELSE IF taken(tldRowExists(@.name), systemTld(CUSTOM_TLDS, @.name),
                             @.owner_id)
               THEN regDone(@, 409)
               ELSE [@ EXCEPT !.pc = "insert"]]
  /\ UNCHANGED << tlds, domains, records, CUSTOM_TLDS, doh, fmt, peer, listed >>

\* The INSERT OR REPLACE settles.
RegInsert(c, dbOk) ==
  /\ reg[c].pc = "insert"
  /\ IF dbOk
     THEN /\ tlds' = insertOrReplaceTld(tlds, reg[c].name, reg[c].owner_id)
          /\ reg' = [reg EXCEPT ![c] = regDone(@, 200)]
     ELSE /\ tlds' = tlds
          /\ reg' = [reg EXCEPT ![c] = regDone(@, 500)]
  /\ UNCHANGED << domains, records, CUSTOM_TLDS, doh, fmt, peer, listed >>

\* The response is sent; the connection is free again.
RegReturn(c) ==
  /\ reg[c].pc = "done"
  /\ reg' = [reg EXCEPT ![c] = NoReg]
  /\ UNCHANGED << tlds, domains, records, CUSTOM_TLDS, doh, fmt, peer, listed >>

\* Largest number of rows of table tlds in the model.
MaxTlds == 2

InitRegister ==
  /\ tlds = << >>
  /\ domains = << >>
  /\ records = << >>
  /\ CUSTOM_TLDS \in { shop, lab }
  /\ doh = Idle
  /\ peer = Idle
  /\ reg = NoRegs
  /\ listed = NotListed
  /\ fmt = NoCall

NextRegister ==
  \/ \E c \in Connections, name \in RegNames, owner_id \in RegOwners :
       Len(tlds) < MaxTlds /\ RegStart(c, name, owner_id)
  \/ \E c \in Connections, dbOk \in BOOLEAN : RegUserRead(c, dbOk)
  \/ \E c \in Connections, dbOk \in BOOLEAN : RegCountRead(c, dbOk)
  \/ \E c \in Connections, dbOk \in BOOLEAN : RegExistsRead(c, dbOk)
  \/ \E c \in Connections, dbOk \in BOOLEAN : RegInsert(c, dbOk)
  \/ \E c \in Connections : RegReturn(c)

SpecRegister == InitRegister /\ [][NextRegister]_vars

\* --------------------------------------------------------------------------
\* handleApi: GET /api/tlds, the rows of table tlds followed by the system
\* TLDs that no row names.
\* --------------------------------------------------------------------------

\* envTlds.forEach(t => ...): the entries pushed for the system TLDs.
RECURSIVE systemEntries(_, _)
systemEntries(envTlds, dbTlds) ==
  IF envTlds = << >> THEN << >>
  ELSE LET trimmedTld == trimChars(Head(envTlds))
       IN  (IF trimmedTld # << >>
               /\ ~\E i \in 1..Len(dbTlds) : dbTlds[i].name = trimmedTld
            THEN << [name |-> trimmedTld, is_public |-> 1, price |-> 0,
                     owner_id |-> "SYSTEM"] >>
            ELSE << >>)
           \o systemEntries(Tail(envTlds), dbTlds)

\* The array the endpoint answers with.
allTlds(custom, dbTlds) ==
  LET envTlds == IF custom # << >> THEN split(custom, ",") ELSE << >>
  IN  dbTlds \o systemEntries(envTlds, dbTlds)

\* GET /api/tlds; dbOk: the read of table tlds does not throw (else 500).
TldsList(dbOk) ==
  /\ listed' = IF dbOk THEN [done |-> TRUE, body |-> allTlds(CUSTOM_TLDS, tlds)]
               ELSE NotListed
  /\ UNCHANGED << tlds, domains, records, CUSTOM_TLDS, doh, fmt, peer, reg >>

\* The values of CUSTOM_TLDS of this specification: one name, an entry with a
\* space after the comma, an empty entry, an upper-case letter, and nothing.
ConfigValues ==
  { shop,
    shop \o << ",", " " >> \o example,
    shop \o << "," >>,
    << "S", "h", "o", "p" >>,
    << >> }

InitList ==
  /\ tlds \in TldTables
  /\ domains = SeededDomains
  /\ records = << [domain_id |-> 1, type |-> "A", host |-> apex,
                   value |-> "127.0.0.1", priority |-> 0, ttl |-> 300] >>
  /\ CUSTOM_TLDS \in ConfigValues
  /\ doh = Idle
  /\ peer = Idle
  /\ reg = NoRegs
  /\ listed = NotListed
  /\ fmt = NoCall

NextList ==
  \/ \E dbOk \in BOOLEAN : TldsList(dbOk)
  \/ \E req \in Requests, dbOk \in BOOLEAN : DoHStart(req, dbOk)
  \/ \E reply \in UpstreamReplies, ok \in BOOLEAN : DoHFetchReply(reply, ok)
  \/ \E dbOk \in BOOLEAN, encOk \in BOOLEAN : DoHDomainRead(dbOk, encOk)
  \/ \E dbOk \in BOOLEAN, encOk \in BOOLEAN : DoHRecordsRead(dbOk, encOk)
  \/ DoHReturn

SpecList == InitList /\ [][NextList]_vars

\* --------------------------------------------------------------------------
\* Names in mixed letter case: /api/domain/register stores tld and name as
\* the request spells them, and handleDoH lower-cases the name of the query.
\* --------------------------------------------------------------------------

AcmeCap == << "A", "c", "m", "e" >>
ShopCap == << "S", "h", "o", "p" >>

\* The question names of this specification, in two spellings each.
CaseNames ==
  { acme \o << "." >> \o shop,
    AcmeCap \o << "." >> \o ShopCap,
    foo \o << "." >> \o bar \o << "." >> \o example,
    << "F", "o", "o", "." >> \o bar \o << ".", "E", "x", "a", "m", "p", "l", "e" >> }

CaseRequests ==
  { [method |-> "POST", provider |-> "cf",
     body |-> encode(Query(7, << [name |-> n, type |-> "A", class |-> "IN"] >>))] :
      n \in CaseNames }

InitCase ==
  /\ tlds = << >>
  /\ domains = << >>
  /\ records = << >>
  /\ CUSTOM_TLDS = shop
  /\ doh = Idle
  /\ peer = Idle
  /\ reg = NoRegs
  /\ listed = NotListed
  /\ fmt = NoCall

NextCase ==
  \/ \E name \in { acme, AcmeCap }, tld \in { shop, ShopCap } :
       DomainRegister(name, tld, "u1")
  \/ \E req \in CaseRequests, dbOk \in BOOLEAN : DoHStart(req, dbOk)
  \/ \E reply \in UpstreamReplies, ok \in BOOLEAN : DoHFetchReply(reply, ok)
  \/ \E dbOk \in BOOLEAN, encOk \in BOOLEAN : DoHDomainRead(dbOk, encOk)
  \/ \E dbOk \in BOOLEAN, encOk \in BOOLEAN : DoHRecordsRead(dbOk, encOk)
  \/ DoHReturn

SpecCase == InitCase /\ [][NextCase]_vars

\* GET /api/domain/check?name=&tld=: what it answers for the TLD alone, before
\* it looks at the domain ("ok" where it goes on to "taken" or "available").
domainCheckTld(tldName) ==
  LET tldDb == { i \in 1..Len(tlds) : tlds[i].name = tldName }
      tldEnv == includes(split(CUSTOM_TLDS, ","), tldName)
  IN  IF tldDb = { } /\ ~tldEnv THEN "tld_not_found"
      ELSE LET isPublic == IF tldDb # { }
                           THEN tlds[CHOOSE i \in tldDb : \A j \in tldDb : i <= j].is_public = 1
                           ELSE TRUE
           IN  IF ~isPublic THEN "private" ELSE "ok"

\* --------------------------------------------------------------------------
\* Vocabulary of the properties
\* --------------------------------------------------------------------------

MaxOf(S) == CHOOSE m \in S : \A x \in S : x <= m

\* The part of s after its last '.', all of s when it has none.
AfterLastDot(s) ==
  LET dots == { i \in 1..Len(s) : s[i] = "." }
  IN  IF dots = { } THEN s ELSE SubSeq(s, MaxOf(dots) + 1, Len(s))

\* The maximal sep-free pieces of s between its ends and its separators.
Pieces(s, sep) ==
  { SubSeq(s, ab[1], ab[2]) :
      ab \in { p \in (1..(Len(s) + 1)) \X (0..Len(s)) :
                 /\ p[2] >= p[1] - 1
                 /\ (p[1] = 1 \/ s[p[1] - 1] = sep)
                 /\ (p[2] = Len(s) \/ s[p[2] + 1] = sep)
                 /\ \A k \in p[1]..p[2] : s[k] # sep } }

\* The names of the rows of table tlds, and the system TLD set.
StoredTlds == { tlds[i].name : i \in 1..Len(tlds) }
SystemTlds == Pieces(CUSTOM_TLDS, ",")
ManagedTlds == StoredTlds \cup SystemTlds

\* The request being handled is a POST whose body decodes to a query with a
\* question; InboundQuestion is that question.
HasInboundQuestion ==
  /\ doh.pc # "idle"
  /\ doh.method = "POST"
  /\ doh.body.kind = "wire"
  /\ doh.body.msg.questions # << >>
InboundQuestion == doh.body.msg.questions[1]
InboundTld == AfterLastDot(toLowerCase(InboundQuestion.name))

IoHas(call) == \E i \in 1..Len(doh.io) : doh.io[i] = call

\* The read of table tlds was made and returned.
TldReadReturned == doh.io # << >> /\ ~(doh.io = << "tlds" >> /\ doh.err = "db")

\* The query was sent to an upstream resolver.
Forwarded == IoHas("fetch") /\ doh.fetchReq # NoFetch

Finished == doh.pc = "done"

ContentTypes(resp) == { h[2] : h \in { x \in resp.headers : x[1] = "Content-Type" } }

\* --------------------------------------------------------------------------
\* C1.  A query is forwarded to the upstream resolver exactly when the last
\* label of its lower-cased question name is neither the name of a row of
\* table tlds nor a member of the system TLD set (given that the read of tlds
\* returned); a query whose TLD is in either is never forwarded, and one whose
\* TLD is in neither never reads domains or records and never gets a locally
\* made wire answer.
\* --------------------------------------------------------------------------
C1_ForwardIffUnmanaged ==
  (HasInboundQuestion /\ TldReadReturned) =>
    /\ Forwarded <=> InboundTld \notin ManagedTlds
    /\ InboundTld \in ManagedTlds => doh.fetchReq = NoFetch /\ doh.upstream = NoReply
    /\ InboundTld \notin ManagedTlds =>
         /\ ~IoHas("domains") /\ ~IoHas("records")
         /\ doh.answers = << >>
         /\ doh.resp.body.kind # "wire"

\* A query for foo.bar.example was forwarded and the upstream's reply relayed.
C1_Witness ==
  /\ Finished /\ HasInboundQuestion /\ Forwarded
  /\ InboundQuestion.name = foo \o << "." >> \o bar \o << "." >> \o example
  /\ doh.resp.body.kind = "upstream"

\* --------------------------------------------------------------------------
\* C2 as amended.  On the proxy path the upstream is sent, by POST, exactly
\* the bytes received from the client; the response has the upstream's status
\* code and the upstream's body, unchanged, and its content type is always
\* application/dns-message, whatever the content type of the upstream's reply.
\* --------------------------------------------------------------------------
C2_ProxyRelay ==
  /\ Forwarded =>
       /\ doh.fetchReq.body = doh.body
       /\ doh.fetchReq.method = "POST"
       /\ doh.fetchReq.headers = { << "Content-Type", "application/dns-message" >> }
  /\ (Finished /\ doh.upstream # NoReply) =>
       /\ doh.resp.status = doh.upstream.status
       /\ doh.resp.body = doh.upstream.body
       /\ ContentTypes(doh.resp) = { "application/dns-message" }

\* C2 as stated: the response also has the upstream's content type.
C2_Original ==
  (Finished /\ doh.upstream # NoReply) =>
    /\ doh.fetchReq.body = doh.body
    /\ doh.resp.status = doh.upstream.status
    /\ doh.resp.body = doh.upstream.body
    /\ ContentTypes(doh.resp) = { doh.upstream.ctype }

\* The upstream answered 400 with an HTML body and that reply was relayed.
C2_Witness ==
  /\ Finished /\ Forwarded
  /\ doh.upstream.status = 400 /\ doh.upstream.ctype = "text/html"
  /\ doh.resp.status = 400

\* --------------------------------------------------------------------------
\* C3 as amended.  A query that carries no question is rejected with
\* "Invalid Query", HTTP 400, before any TLD lookup or upstream forward.  A
\* query whose question name has zero labels is not rejected: its TLD is the
\* empty string, table tlds is read for it, and it is forwarded when the empty
\* string is not a managed TLD and answered 404 NXDOMAIN when it is.
\* --------------------------------------------------------------------------
RootNames == { << "." >>, << >> }

C4_MalformedIs400 ==
  (Finished /\ doh.method = "POST" /\ doh.body.kind = "garbage") =>
    /\ doh.resp.status = 400
    /\ doh.resp.body.kind = "text"

\* --------------------------------------------------------------------------
\* Vocabulary of the authoritative path
\* --------------------------------------------------------------------------

DotsOf(s) == { i \in 1..Len(s) : s[i] = "." }

\* The part of s before its last '.', for an s that has one.
BeforeLastDot(s) == SubSeq(s, 1, MaxOf(DotsOf(s)) - 1)

InboundName == toLowerCase(InboundQuestion.name)

\* The question name has a label before its TLD, and that label.
HasDomainLabel ==
  /\ DotsOf(InboundName) # { }
  /\ AfterLastDot(BeforeLastDot(InboundName)) # << >>
DomainLabel == AfterLastDot(BeforeLastDot(InboundName))

\* The labels before the domain label joined by '.', '@' when there is none.
ExpectedHost ==
  LET b == BeforeLastDot(InboundName)
  IN  IF DotsOf(b) = { } THEN apex ELSE BeforeLastDot(b)

\* The ids of the rows of table domains for the question's (tld, domain).
DomainIds ==
  { domains[i].id : i \in { j \in 1..Len(domains) :
      domains[j].tld = InboundTld /\ domains[j].name = DomainLabel } }

\* The positions of the rows of table records of domain D whose host is the
\* question's host or the wildcard.
MatchedRows(D) ==
  { i \in 1..Len(records) :
      records[i].domain_id = D /\ records[i].host \in { ExpectedHost, star } }

\* The k-th smallest member of a set of positions.
Nth(S, k) == CHOOSE i \in S : Cardinality({ j \in S : j <= i }) = k

NoFault == doh.err = "none"

\* The request was answered from the record store; its answers.
RecordsWereRead == HasInboundQuestion /\ Finished /\ IoHas("records") /\ doh.err # "db"
RespAnswers == doh.resp.body.msg.answers

\* The response is an authoritative wire response to the query with no answer.
EmptyAuthoritative ==
  /\ doh.resp.status = 200
  /\ doh.resp.body.kind = "wire"
  /\ doh.resp.body.msg.type = "response"
  /\ doh.resp.body.msg.id = doh.body.msg.id
  /\ doh.resp.body.msg.flags = "AUTHORITATIVE_ANSWER"
  /\ doh.resp.body.msg.answers = << >>

\* shop is managed, acme.shop is registered, and its only record is an A
\* record at host '@' with value 203.0.113.5.
ScenarioAcme ==
  /\ shop \in ManagedTlds
  /\ \E i \in 1..Len(domains) :
       /\ domains[i].tld = shop /\ domains[i].name = acme
       /\ LET rows == SelectSeq(records, LAMBDA r : r.domain_id = domains[i].id)
          IN  /\ Len(rows) = 1
              /\ rows[1].type = "A" /\ rows[1].host = apex
              /\ rows[1].value = "203.0.113.5"

wwwAcmeShop == www \o << "." >> \o acme \o << "." >> \o shop
acmeShop == acme \o << "." >> \o shop

ScenarioAnswered(name) ==
  /\ ScenarioAcme
  /\ HasInboundQuestion /\ Finished /\ NoFault
  /\ InboundQuestion.name = name /\ InboundQuestion.type = "A"

\* --------------------------------------------------------------------------
\* C5 as amended.  Scenario acme.shop: shop is a managed TLD and acme a
\* registered domain whose only record is an A record at host '@' with value
\* 203.0.113.5.  An A query for www.acme.shop returns an authoritative
\* response with zero answers (its host is 'www', and no record has host
\* 'www' or '*'); an A query for acme.shop returns exactly one answer, of
\* type A, data "203.0.113.5" and name acme.shop.
\* --------------------------------------------------------------------------
C5_ApexRecordAnswersApexQuery ==
  /\ ScenarioAnswered(wwwAcmeShop) => EmptyAuthoritative
  /\ ScenarioAnswered(acmeShop) =>
       /\ doh.resp.status = 200
       /\ Len(RespAnswers) = 1
       /\ RespAnswers[1].type = "A"
       /\ RespAnswers[1].data = JStr("203.0.113.5")
       /\ RespAnswers[1].name = acmeShop

\* C5 as stated: the A query for www.acme.shop returns one answer, of type A,
\* data "203.0.113.5" and name www.acme.shop.
C5_Original ==
  ScenarioAnswered(wwwAcmeShop) =>
    /\ doh.resp.status = 200
    /\ Len(RespAnswers) = 1
    /\ RespAnswers[1].type = "A"
    /\ RespAnswers[1].data = JStr("203.0.113.5")
    /\ RespAnswers[1].name = wwwAcmeShop

\* The A query for www.acme.shop was answered in the scenario, after the read
\* of table records.
C5_Witness ==
  /\ ScenarioAnswered(wwwAcmeShop)
  /\ doh.io = << "tlds", "domains", "records" >>
  /\ doh.host = www

\* --------------------------------------------------------------------------
\* C6.  A query for a bare managed TLD (a name of exactly one label whose TLD
\* is managed) is answered HTTP 404 with the plain-text body "NXDOMAIN", no
\* DNS wire body, and without any read of table domains or table records.
\* --------------------------------------------------------------------------
C6_BareTldIsNxdomain ==
  (HasInboundQuestion /\ TldReadReturned
     /\ InboundQuestion.name # << >> /\ DotsOf(InboundQuestion.name) = { }
     /\ InboundTld \in ManagedTlds) =>
    /\ Finished
    /\ doh.resp.status = 404
    /\ doh.resp.body = TextBody("NXDOMAIN")
    /\ ContentTypes(doh.resp) = { "text/plain;charset=UTF-8" }
    /\ doh.io = << "tlds" >>

\* The query for the name shop was answered while shop is a system TLD.
C6_Witness ==
  /\ HasInboundQuestion /\ Finished
  /\ InboundQuestion.name = shop /\ shop \in SystemTlds
  /\ doh.resp.status = 404

\* --------------------------------------------------------------------------
\* C7.  A query under a managed TLD whose (tld, domain) pair has no row in
\* table domains gets HTTP 200 with an authoritative wire response of zero
\* answers, without a read of table records; the response of a query for an
\* existing domain none of whose records for the host passes the answer
\* filter has the same status, flag and answer count.
\* --------------------------------------------------------------------------
C7_AbsentDomainIsEmptyAnswer ==
  (HasInboundQuestion /\ Finished /\ NoFault
     /\ InboundTld \in ManagedTlds /\ HasDomainLabel) =>
    /\ DomainIds = { } => EmptyAuthoritative /\ ~IoHas("records")
    /\ (/\ DomainIds # { }
        /\ \A D \in DomainIds : \A i \in MatchedRows(D) :
             /\ records[i].type # InboundQuestion.type
             /\ InboundQuestion.type # "ANY"
             /\ records[i].type # "CNAME") => EmptyAuthoritative /\ IoHas("records")

\* A query for www.acme.shop was answered while no domain is registered.
C7_Witness ==
  /\ HasInboundQuestion /\ Finished /\ NoFault
  /\ InboundQuestion.name = wwwAcmeShop /\ shop \in ManagedTlds
  /\ domains = << >>
  /\ doh.resp.status = 200 /\ RespAnswers = << >>

\* --------------------------------------------------------------------------
\* C8.  For an existing domain the fetched records are exactly the rows of
\* table records with the domain's id whose host is the computed host (the
\* labels before the domain label joined by '.', '@' when there is none) or
\* '*', in row order; every fetched record of the requested type, wildcard
\* or exact, is answered, so an exact-host record and a wildcard record of
\* the same type are both in the answers.
\* --------------------------------------------------------------------------
C8_FetchedAreHostOrWildcard ==
  RecordsWereRead =>
    /\ Cardinality(DomainIds) = 1
    /\ LET D == CHOOSE d \in DomainIds : TRUE
           I == MatchedRows(D)
       IN  /\ Len(doh.results) = Cardinality(I)
           /\ \A k \in 1..Len(doh.results) :
                LET r == records[Nth(I, k)]
                IN  doh.results[k] = [type |-> r.type, value |-> r.value,
                                      priority |-> r.priority, ttl |-> r.ttl]
           /\ NoFault =>
                /\ \A i \in I : records[i].type = InboundQuestion.type =>
                     \E k \in 1..Len(RespAnswers) :
                       /\ RespAnswers[k].type = records[i].type
                       /\ RespAnswers[k].data =
                            formatRecordData(records[i].type, records[i].value,
                                             JNum(records[i].priority))
                /\ InboundQuestion.type # "ANY" =>
                     Cardinality({ k \in 1..Len(RespAnswers) :
                                     RespAnswers[k].type = InboundQuestion.type })
                       = Cardinality({ i \in I : records[i].type = InboundQuestion.type })

\* An A query for www.acme.shop was answered with both the A record at host
\* 'www' and the A record at host '*'.
C8_Witness ==
  /\ RecordsWereRead /\ NoFault
  /\ InboundQuestion.name = wwwAcmeShop /\ InboundQuestion.type = "A"
  /\ \E i, j \in 1..Len(records) :
       /\ records[i].host = www /\ records[i].type = "A"
       /\ records[j].host = star /\ records[j].type = "A"
  /\ Len(RespAnswers) = 2

\* --------------------------------------------------------------------------
\* C9.  The answers are made of exactly the fetched records r for which
\* r.type equals the question type, or the question type is ANY, or r.type is
\* CNAME: one answer for each such record and none for any other, in the order
\* of the fetched records.
\* --------------------------------------------------------------------------
C9_AnswersAreFilteredResults ==
  (RecordsWereRead /\ NoFault) =>
    LET K == { i \in 1..Len(doh.results) :
                 \/ doh.results[i].type = InboundQuestion.type
                 \/ InboundQuestion.type = "ANY"
                 \/ doh.results[i].type = "CNAME" }
    IN  /\ Len(RespAnswers) = Cardinality(K)
        /\ \A k \in 1..Len(RespAnswers) :
             LET r == doh.results[Nth(K, k)]
             IN  RespAnswers[k] =
                   [type |-> r.type, class |-> "IN", name |-> InboundQuestion.name,
                    data |-> formatRecordData(r.type, r.value, JNum(r.priority)),
                    ttl |-> IF r.ttl = 0 THEN 300 ELSE r.ttl]

\* An MX query fetched an A record and a CNAME record and was answered with
\* the CNAME record alone.
C9_Witness ==
  /\ RecordsWereRead /\ NoFault
  /\ InboundQuestion.type = "MX"
  /\ Len(doh.results) = 2
  /\ doh.results[1].type = "A" /\ doh.results[2].type = "CNAME"
  /\ Len(RespAnswers) = 1 /\ RespAnswers[1].type = "CNAME"

\* --------------------------------------------------------------------------
\* C10.  Every CNAME record stored for the matched host of an existing domain
\* is in the answers whatever the type the query asks for, in whatever letter
\* case its type tag was stored.
\* --------------------------------------------------------------------------
C10_CnameAlwaysAnswered ==
  (RecordsWereRead /\ NoFault) =>
    \A D \in DomainIds : \A i \in MatchedRows(D) :
      (toUpperCase(records[i].type) = "CNAME" /\ records[i].host = ExpectedHost) =>
        \E k \in 1..Len(RespAnswers) :
          /\ RespAnswers[k].type = records[i].type
          /\ RespAnswers[k].data = JStr(records[i].value)

\* --------------------------------------------------------------------------
\* C11.  A query of type ANY is answered with one answer for every row of
\* table records of the domain whose host is the question's host or '*',
\* whatever the rows' types, in row order.
\* --------------------------------------------------------------------------
C11_AnyReturnsEveryRecord ==
  (RecordsWereRead /\ NoFault /\ InboundQuestion.type = "ANY") =>
    \A D \in DomainIds :
      LET I == MatchedRows(D)
      IN  /\ Len(RespAnswers) = Cardinality(I)
          /\ \A k \in 1..Len(RespAnswers) :
               LET r == records[Nth(I, k)]
               IN  /\ RespAnswers[k].type = r.type
                   /\ RespAnswers[k].data =
                        formatRecordData(r.type, r.value, JNum(r.priority))

\* An ANY query was answered with two records of different types.
C11_Witness ==
  /\ RecordsWereRead /\ NoFault /\ InboundQuestion.type = "ANY"
  /\ Len(RespAnswers) = 2
  /\ RespAnswers[1].type = "A" /\ RespAnswers[2].type = "MX"

\* --------------------------------------------------------------------------
\* Vocabulary of the wire response
\* --------------------------------------------------------------------------

\* The query was answered by the handler itself from the store: its TLD is
\* managed, its name has a domain label, and nothing threw.
LocallyAnswered ==
  /\ HasInboundQuestion /\ Finished /\ NoFault
  /\ InboundTld \in ManagedTlds /\ HasDomainLabel

\* --------------------------------------------------------------------------
\* C13.  Every locally answered query gets one wire response, HTTP 200, whose
\* message id is the inbound id, whose question section is the inbound
\* question section, whose flag is AUTHORITATIVE_ANSWER, and whose answers are
\* all the answers made of the fetched records that pass the filter.
\* --------------------------------------------------------------------------
C13_WireResponseEchoesQuery ==
  LocallyAnswered =>
    /\ doh.resp.status = 200
    /\ doh.resp.body.kind = "wire"
    /\ ContentTypes(doh.resp) = { "application/dns-message" }
    /\ doh.resp.body.msg.type = "response"
    /\ doh.resp.body.msg.id = doh.body.msg.id
    /\ doh.resp.body.msg.questions = doh.body.msg.questions
    /\ doh.resp.body.msg.flags = "AUTHORITATIVE_ANSWER"
    /\ RespAnswers = doh.answers
    /\ Len(RespAnswers) =
         Cardinality({ i \in 1..Len(doh.results) :
                         \/ doh.results[i].type = InboundQuestion.type
                         \/ InboundQuestion.type = "ANY"
                         \/ doh.results[i].type = "CNAME" })

\* The query of id 9 for acme.shop was answered with the stored A record.
C13_Witness ==
  /\ LocallyAnswered
  /\ doh.body.msg.id = 9 /\ doh.resp.body.msg.id = 9
  /\ Len(RespAnswers) = 1

Returned == fmt.pc = "returned"

\* The type tag of the call in upper case.
Tag == toUpperCase(fmt.type)

\* The type tags the formatter has a case for.
KnownTypes ==
  OpaqueTypes \cup TextListTypes \cup EmptyDefaultTypes \cup BlobTypes
    \cup { "MX", "KX", "URI", "PX", "SRV", "HTTPS", "SVCB", "CAA", "HINFO", "RT" }

\* The value is, white space around it aside, a JSON text; what it parses to.
IsJson(value) == \E d \in JsonDocs : d.text = trim(value)
ParsedJson(value) == (CHOOSE d \in JsonDocs : d.text = trim(value)).value

\* The value starts like a JSON text and is none.
BrokenJson == { "{bad", "[1,2" }

\* --------------------------------------------------------------------------
\* C14.  formatRecordData(type, value, priority) returns a value and never
\* raises, for every type tag, known or unknown, and every string value; for
\* a value that starts with '{' or '[' and is no JSON text the result is the
\* one of a value that is not parsed: the raw string for the opaque, unknown
\* and blob types, [value] for the text-list types, an object made by the
\* function for every other type.
\* --------------------------------------------------------------------------
C14_FormatIsTotal ==
  /\ fmt.pc # "threw"
  /\ Returned => fmt.out.t \in { "string", "object", "array" }
  /\ (Returned /\ fmt.value \in BrokenJson) =>
       IF Tag \in OpaqueTypes \cup BlobTypes \/ Tag \notin KnownTypes
       THEN fmt.out = JStr(fmt.value)
       ELSE IF Tag \in TextListTypes
       THEN fmt.out = JArr(<< JStr(fmt.value) >>)
       ELSE fmt.out.t = "object" /\ \A d \in JsonDocs : fmt.out # d.value \/ d.text = "{}"

\* The call for a DHCID record of value "{bad" returned the raw string.
C14_Witness ==
  /\ Returned /\ fmt.type = "DHCID" /\ fmt.value = "{bad"
  /\ fmt.out = JStr("{bad")

\* --------------------------------------------------------------------------
\* C15.  For the opaque string types A, AAAA, CNAME, NS, PTR, DNAME and for
\* every type tag the formatter has no case for, formatRecordData returns the
\* value itself: the same string, not trimmed and not parsed even when it is a
\* JSON text, whatever the priority and the letter case of the type tag.
\* --------------------------------------------------------------------------
C15_OpaqueReturnsValue ==
  (Returned /\ (Tag \in OpaqueTypes \/ Tag \notin KnownTypes)) =>
    fmt.out = JStr(fmt.value)

\* The call for a 'cname' record whose value is a JSON text with white space
\* around it returned that text.
C15_Witness ==
  /\ Returned /\ fmt.type = "cname" /\ fmt.value = " {}" /\ fmt.priority = JNum(20)
  /\ fmt.out = JStr(" {}")

\* --------------------------------------------------------------------------
\* C16.  For the text-list types TXT, SPF, AVC, NINFO formatRecordData
\* returns the parsed value when the value parses as a JSON array, and the
\* one-element list [value] otherwise: when it parses as a JSON object, when
\* it does not parse, when it is a plain string.
\* --------------------------------------------------------------------------
C16_TextListWrapsValue ==
  (Returned /\ Tag \in TextListTypes) =>
    IF IsJson(fmt.value) /\ ParsedJson(fmt.value).t = "array"
    THEN fmt.out = ParsedJson(fmt.value)
    ELSE fmt.out = JArr(<< JStr(fmt.value) >>)

\* The call for a TXT record whose value is the text of a JSON object returned
\* the list of that text.
C16_Witness ==
  /\ Returned /\ fmt.type = "TXT"
  /\ IsJson(fmt.value) /\ ParsedJson(fmt.value).t = "object"
  /\ fmt.out = JArr(<< JStr(fmt.value) >>)

\* --------------------------------------------------------------------------
\* Vocabulary of the priority tuples
\* --------------------------------------------------------------------------

\* The value is a plain string: it does not start like a JSON text.
PlainValue == ~IsJson(fmt.value) /\ fmt.value \notin BrokenJson

\* The key field of a priority-tuple type.
KeyField == IF Tag = "URI" THEN "target" ELSE "exchange"

\* An object has the field.
HasField(v, key) == v.t = "object" /\ \E i \in 1..Len(v.f) : v.f[i][1] = key

\* The result is the tuple made from the raw value: the key field is the
\* value, the priority field is there, and a URI has weight 1.
Synthesized ==
  /\ fmt.out.t = "object"
  /\ prop(fmt.out, KeyField) = JStr(fmt.value)
  /\ HasField(fmt.out, IF Tag = "URI" THEN "priority" ELSE "preference")
  /\ Tag = "URI" => prop(fmt.out, "weight") = JNum(1)

\* --------------------------------------------------------------------------
\* C17.  For MX and a value that is a plain string, formatRecordData returns
\* {preference: p, exchange: value}, where p is the given priority, and 10
\* when no priority is given; "mail.acme.shop" with priority 20 gives
\* {preference: 20, exchange: "mail.acme.shop"}.
\* --------------------------------------------------------------------------
C17_MxFromPlainString ==
  (Returned /\ Tag = "MX" /\ PlainValue) =>
    fmt.out = JObj(<< << "preference",
                         IF fmt.priority = JUndefined THEN JNum(10) ELSE fmt.priority >>,
                      << "exchange", JStr(fmt.value) >> >>)

\* --------------------------------------------------------------------------
\* C18 as amended.  For MX, KX and URI, when the value parses to a JSON
\* object whose key field (exchange for MX and KX, target for URI) has a
\* truthy value, formatRecordData returns that object as it is, whatever the
\* priority; in every other case (a plain string, a text that does not parse,
\* an array, an object without the key field or with an empty one) it returns
\* the tuple made from the raw value, with weight 1 for URI.  For PX every
\* parsed object or array is returned as it is, and the tuple is
\* {preference, map822: '', mapx400: ''} otherwise.
\* --------------------------------------------------------------------------
C18_TupleOrParsedObject ==
  /\ (Returned /\ Tag \in { "MX", "KX", "URI" }) =>
       IF /\ IsJson(fmt.value)
          /\ HasField(ParsedJson(fmt.value), KeyField)
          /\ prop(ParsedJson(fmt.value), KeyField) \notin { JStr(""), JNum(0) }
       THEN fmt.out = ParsedJson(fmt.value)
       ELSE Synthesized
  /\ (Returned /\ Tag = "PX") =>
       IF IsJson(fmt.value)
       THEN fmt.out = ParsedJson(fmt.value)
       ELSE /\ HasField(fmt.out, "preference")
            /\ prop(fmt.out, "map822") = JStr("")
            /\ prop(fmt.out, "mapx400") = JStr("")

\* C18 as stated: the parsed object is returned whenever it carries the key
\* field, and the tuple is made only when it does not.
C18_Original ==
  (Returned /\ Tag \in { "MX", "KX", "URI" }) =>
    IF IsJson(fmt.value) /\ HasField(ParsedJson(fmt.value), KeyField)
    THEN fmt.out = ParsedJson(fmt.value)
    ELSE Synthesized

\* The call for an MX record whose value is the text of an object with an
\* empty exchange returned the tuple made from that text.
C18_Witness ==
  /\ Returned /\ Tag = "MX" /\ IsJson(fmt.value)
  /\ prop(ParsedJson(fmt.value), "exchange") = JStr("")
  /\ prop(fmt.out, "exchange") = JStr(fmt.value)

\* --------------------------------------------------------------------------
\* Vocabulary of the structured types
\* --------------------------------------------------------------------------

\* The types whose data is a structure (doh.ts, "Complex Structures" and
\* "DNSSEC / Crypto / Binary Types").
StructuredTypes ==
  { "SRV", "HTTPS", "SVCB", "CAA", "HINFO", "RT" } \cup EmptyDefaultTypes

\* The positions of the fetched records that pass the answer filter.
KeptResults ==
  { i \in 1..Len(doh.results) :
      \/ doh.results[i].type = InboundQuestion.type
      \/ InboundQuestion.type = "ANY"
      \/ doh.results[i].type = "CNAME" }

\* data is the empty structure or the minimal default of the type, made for
\* the raw value.
IsDefaultOf(T, value, data) ==
  /\ data.t = "object"
  /\ T \in EmptyDefaultTypes => data = JObj(<< >>)
  /\ T = "HINFO" =>
       data = JObj(<< << "cpu", JStr("INTEL-386") >>, << "os", JStr("UNIX") >> >>)
  /\ T = "CAA" =>
       data = JObj(<< << "flags", JNum(0) >>, << "tag", JStr("issue") >>,
                      << "value", JStr(value) >> >>)
  /\ T = "SRV" =>
       /\ HasField(data, "priority")
       /\ prop(data, "weight") = JNum(0) /\ prop(data, "port") = JNum(0)
       /\ prop(data, "target") = JStr(value)
  /\ T \in { "HTTPS", "SVCB" } =>
       /\ HasField(data, "priority")
       /\ prop(data, "target") = JStr(".") /\ prop(data, "value") = JObj(<< >>)
  /\ T = "RT" =>
       HasField(data, "preference") /\ prop(data, "intermediateHost") = JStr(value)

\* --------------------------------------------------------------------------
\* C19.  For a record of a structured type whose value does not parse to a
\* JSON object or array, the data of its answer is the empty structure {} or
\* the minimal default of the type; and every fetched record that passes the
\* filter has its answer made, a record of such a value among them or not:
\* the malformed record stops the formatting of no other.
\* --------------------------------------------------------------------------
C19_MalformedGetsDefault ==
  RecordsWereRead =>
    /\ Len(doh.answers) = Cardinality(KeptResults)
    /\ \A k \in 1..Len(doh.answers) :
         LET r == doh.results[Nth(KeptResults, k)]
         IN  /\ doh.answers[k].type = r.type
             /\ (toUpperCase(r.type) \in StructuredTypes /\ ~IsJson(r.value)) =>
                  IsDefaultOf(toUpperCase(r.type), r.value, doh.answers[k].data)
             /\ toUpperCase(r.type) \in OpaqueTypes => doh.answers[k].data = JStr(r.value)

\* An ANY query was answered with the default of an SRV record whose value is
\* no JSON text and with the A record that is stored before it.
C19_Witness ==
  /\ RecordsWereRead /\ NoFault /\ InboundQuestion.type = "ANY"
  /\ Len(RespAnswers) = 2
  /\ RespAnswers[1].type = "A" /\ RespAnswers[1].data = JStr("203.0.113.5")
  /\ RespAnswers[2].type = "SRV" /\ RespAnswers[2].data.t = "object"
  /\ prop(RespAnswers[2].data, "target") = JStr("{bad")

\* --------------------------------------------------------------------------
\* Vocabulary of the round trip
\* --------------------------------------------------------------------------

\* The call formats the string stored for the structured value fmt.v.
FormatsStored == Returned /\ fmt.v # JUndefined

\* out is v, or v with a priority field added after its own fields.
SameButPriority(v, out) ==
  \/ out = v
  \/ /\ v.t = "object" /\ out.t = "object"
     /\ ~HasField(v, "priority")
     /\ Len(out.f) = Len(v.f) + 1
     /\ SubSeq(out.f, 1, Len(v.f)) = v.f
     /\ out.f[Len(out.f)][1] = "priority"

\* The result is the structured value, fields added by the default policy of
\* the type (priority, for SRV, HTTPS and SVCB) aside.
RoundTrips ==
  IF Tag \in { "SRV", "HTTPS", "SVCB" }
  THEN SameButPriority(fmt.v, fmt.out)
  ELSE fmt.out = fmt.v

\* --------------------------------------------------------------------------
\* C20 as amended.  The string /api/records/update stores for a structured
\* value v parses back to v.  formatRecordData applied to it returns v (with
\* priority added when missing, for SRV, HTTPS and SVCB) for the structured
\* types, PX and the blob types; for the text-list types when v is an array;
\* for MX, KX and URI when v is an object whose key field is truthy.  It does
\* not return v otherwise: for the opaque string types it returns the JSON
\* text, for a text-list type and an object v the one-element list of the
\* JSON text, for MX, KX and URI without a truthy key field the tuple made
\* from the JSON text.
\* --------------------------------------------------------------------------
C20_RoundTripOfStructuredTypes ==
  FormatsStored =>
    /\ IsJson(fmt.value) /\ ParsedJson(fmt.value) = fmt.v
    /\ Tag \in StructuredTypes \cup BlobTypes \cup { "PX" } => RoundTrips
    /\ Tag \in TextListTypes =>
         IF fmt.v.t = "array" THEN fmt.out = fmt.v
         ELSE fmt.out = JArr(<< JStr(fmt.value) >>)
    /\ Tag \in { "MX", "KX", "URI" } =>
         IF truthy(prop(fmt.v, KeyField)) THEN fmt.out = fmt.v
         ELSE Synthesized /\ fmt.out # fmt.v
    /\ Tag \in OpaqueTypes => fmt.out = JStr(fmt.value) /\ fmt.out # fmt.v

\* C20 as stated: the round trip gives v back for every type tag of the
\* supported table.
C20_Original ==
  (FormatsStored /\ Tag \in KnownTypes) => RoundTrips

\* The string stored for {port: 443} was formatted for an SRV record of
\* priority 20: the result is {port: 443, priority: 20}.
C20_Witness ==
  /\ FormatsStored /\ Tag = "SRV" /\ fmt.priority = JNum(20)
  /\ fmt.v = JObj(<< << "port", JNum(443) >> >>)
  /\ fmt.out = JObj(<< << "port", JNum(443) >>, << "priority", JNum(20) >> >>)

\* --------------------------------------------------------------------------
\* C21.  The upstream endpoint used on the proxy path is the one mapped to
\* the provider key (google, cf, quad9); for every other provider key, and
\* when the path gives no key (the dispatcher then passes 'google'), it is the
\* endpoint of google.
\* --------------------------------------------------------------------------
EndpointOf(key) ==
  CASE key = "cf" -> "https://1.1.1.1/dns-query"
    [] key = "quad9" -> "https://9.9.9.9/dns-query"
    [] OTHER -> "https://8.8.8.8/dns-query"

C21_EndpointIsMappedOrDefault ==
  Forwarded => doh.fetchReq.url = JStr(EndpointOf(doh.provider))

\* --------------------------------------------------------------------------
\* C22 as amended.  Handling one query performs at most three store reads, in
\* the order tlds, domains, records, each at most once: the domain and its
\* records are two reads, and the second is made only when the first finds
\* the domain.  On the proxy path there is exactly one upstream call, made
\* after the read of tlds, and no read of domains or records; on the
\* authoritative path there is no upstream call.
\* --------------------------------------------------------------------------
IsStoreRead(call) == call \in { "tlds", "domains", "records" }
StoreReads == SelectSeq(doh.io, IsStoreRead)
IsPrefixOf(s, t) == Len(s) <= Len(t) /\ s = SubSeq(t, 1, Len(s))

C22_ReadsInOrder ==
  /\ IsPrefixOf(StoreReads, << "tlds", "domains", "records" >>)
  /\ (HasInboundQuestion /\ TldReadReturned /\ InboundTld \notin ManagedTlds) =>
       doh.io = << "tlds", "fetch" >>
  /\ (HasInboundQuestion /\ InboundTld \in ManagedTlds) =>
       /\ doh.io = StoreReads
       /\ (Finished /\ NoFault /\ HasDomainLabel) =>
            doh.io = IF DomainIds = { } THEN << "tlds", "domains" >>
                     ELSE << "tlds", "domains", "records" >>

\* C22 as stated: at most two store reads per query.
C22_Original ==
  /\ Len(StoreReads) <= 2
  /\ IsPrefixOf(StoreReads, << "tlds", "domains", "records" >>)
  /\ (HasInboundQuestion /\ TldReadReturned /\ InboundTld \notin ManagedTlds) =>
       doh.io = << "tlds", "fetch" >>
  /\ (HasInboundQuestion /\ InboundTld \in ManagedTlds) => doh.io = StoreReads

\* A query for a registered domain was answered after three store reads.
C22_Witness ==
  /\ Finished /\ NoFault /\ HasInboundQuestion
  /\ doh.io = << "tlds", "domains", "records" >>
  /\ doh.resp.status = 200

\* --------------------------------------------------------------------------
\* C23.  Every POST ends in exactly one of five outcomes: the relayed reply of
\* the upstream, 400 "Invalid Query", 404 "NXDOMAIN", 500 "Server Error" as
\* plain text without wire body, or 200 with a complete wire response.  A
\* fault in a store read, the upstream call or the encoding (or the decoding)
\* gives the 500 outcome, and a wire response carries every record that the
\* fetch and the type filter select, never a part of them.
\* --------------------------------------------------------------------------
OutcomeProxied ==
  /\ doh.resp.body.kind = "upstream"
  /\ doh.upstream # NoReply
  /\ doh.resp.body = doh.upstream.body /\ doh.resp.status = doh.upstream.status
OutcomeInvalidQuery == doh.resp.status = 400 /\ doh.resp.body = TextBody("Invalid Query")
OutcomeNxdomain == doh.resp.status = 404 /\ doh.resp.body = TextBody("NXDOMAIN")
OutcomeServerError ==
  /\ doh.resp.status = 500 /\ doh.resp.body = TextBody("Server Error")
  /\ ContentTypes(doh.resp) = { "text/plain;charset=UTF-8" }
OutcomeWire ==
  /\ doh.resp.status = 200 /\ doh.resp.body.kind = "wire"
  /\ doh.resp.body.msg.type = "response"
  /\ doh.body.kind = "wire"
  /\ doh.resp.body.msg.id = doh.body.msg.id
  /\ doh.resp.body.msg.questions = doh.body.msg.questions

\* The rows of table records that the fetch and the type filter select for
\* the question.
SelectedRows ==
  IF ~HasDomainLabel \/ DomainIds = { } THEN { }
  ELSE { i \in UNION { MatchedRows(D) : D \in DomainIds } :
           \/ records[i].type = InboundQuestion.type
           \/ InboundQuestion.type = "ANY"
           \/ records[i].type = "CNAME" }

Outcomes ==
  << OutcomeProxied, OutcomeInvalidQuery, OutcomeNxdomain, OutcomeServerError,
     OutcomeWire >>

C23_OneOutcomeFaultsAre500 ==
  (Finished /\ doh.method = "POST") =>
    /\ Cardinality({ k \in 1..5 : Outcomes[k] }) = 1
    /\ ~NoFault => OutcomeServerError
    /\ OutcomeWire => Len(RespAnswers) = Cardinality(SelectedRows)

\* The encoding of a response with an answer threw, and the client got the
\* plain-text 500.
C23_Witness ==
  /\ Finished /\ doh.method = "POST" /\ doh.err = "encode"
  /\ doh.answers # << >>
  /\ OutcomeServerError

\* --------------------------------------------------------------------------
\* C24.  handleDoH never writes to the store: every step of every /dns-query
\* request, whatever its method and outcome and however two requests
\* interleave, leaves tables tlds, domains and records as they are; and the
\* outcome of a request handled next to another one is an outcome it has when
\* handled alone on the same store.
\* --------------------------------------------------------------------------

\* What can go wrong, or be answered, during one request.
Faults ==
  [tldsOk : BOOLEAN, domainsOk : BOOLEAN, recordsOk : BOOLEAN, encOk : BOOLEAN,
   fetchOk : BOOLEAN, reply : UpstreamReplies]

\* One more step of a handler under the faults f; a finished handler stays.
stepAlone(h, f) ==
  CASE h.pc = "fetch" -> fetchReply(h, f.reply, f.fetchOk)
    [] h.pc = "domain" -> domainRead(h, f.domainsOk, f.encOk)
    [] h.pc = "records" -> recordsRead(h, f.recordsOk, f.encOk)
    [] OTHER -> h

\* The handler of request req run from its start to its response, with no
\* other request in between.
alone(req, f) == stepAlone(stepAlone(start(req, f.tldsOk), f), f)

RequestOf(h) == [method |-> h.method, body |-> h.body, provider |-> h.provider]

AsAlone(h) == \E f \in Faults : h = alone(RequestOf(h), f)

C24_NoWriteNoInterference ==
  /\ [][UNCHANGED << tlds, domains, records >>]_vars
  /\ [](doh.pc = "done" => AsAlone(doh))
  /\ [](peer.pc = "done" => AsAlone(peer))

\* A query for acme.shop was answered from the store while another request,
\* started after it, is waiting for its own read of table domains.
C24_Witness ==
  /\ Finished /\ NoFault /\ IoHas("records")
  /\ doh.question.name = acme \o << "." >> \o shop
  /\ peer.pc = "domain"
  /\ peer.question.name = www \o << "." >> \o acme \o << "." >> \o shop

\* --------------------------------------------------------------------------
\* C25.  After any sequence and interleaving of TLD registration requests, of
\* ordinary users and of the administrator, no TLD name is the name of two
\* rows of table tlds, and no name of a row of tlds is a member of the system
\* TLD set.
\* --------------------------------------------------------------------------
C25_TldNamesUnique ==
  /\ \A i \in 1..Len(tlds) : \A j \in 1..Len(tlds) : tlds[i].name = tlds[j].name => i = j
  /\ StoredTlds \cap SystemTlds = { }

\* --------------------------------------------------------------------------
\* C26.  The names handleDoH treats as system TLDs are the names /api/tlds
\* reports with owner SYSTEM, whatever the value of CUSTOM_TLDS: a query's TLD
\* is taken for a system TLD exactly when the list names it, as the query
\* spells it or lower-cased, with owner SYSTEM.
\* --------------------------------------------------------------------------
ListedSystem ==
  { listed.body[i].name :
      i \in { k \in 1..Len(listed.body) : listed.body[k].owner_id = "SYSTEM" } }

C26_SystemTldsAgree ==
  (listed.done /\ HasInboundQuestion /\ TldReadReturned) =>
    (doh.isSystemTld <=>
       \/ InboundTld \in ListedSystem
       \/ AfterLastDot(InboundQuestion.name) \in ListedSystem)

\* --------------------------------------------------------------------------
\* C27.  Letter case does not matter.  A query gets the proxy-versus-local
\* decision, the status and the answer records that the query with the
\* lower-cased name gets on the same store (the answers differ in the
\* spelling of name only); and a domain registered through
\* /api/domain/register under a managed TLD, in whatever letter case its tld
\* and name were given, is found by a query for that name.
\* --------------------------------------------------------------------------

\* The request with its question name lower-cased.
LowerCased(req) ==
  [req EXCEPT !.body.msg.questions[1].name = toLowerCase(@)]

\* An answer without its name.
Nameless(a) == [type |-> a.type, class |-> a.class, ttl |-> a.ttl, data |-> a.data]
NamelessAnswers(h) == [i \in 1..Len(h.answers) |-> Nameless(h.answers[i])]

SameUpToCase(h, twin) ==
  /\ twin.pc = "done" /\ twin.err = h.err
  /\ twin.io = h.io
  /\ twin.fetchReq.url = h.fetchReq.url
  /\ twin.resp.status = h.resp.status
  /\ NamelessAnswers(twin) = NamelessAnswers(h)

CaseBlindDecision ==
  (Finished /\ HasInboundQuestion) =>
    \E f \in Faults : SameUpToCase(doh, alone(LowerCased(RequestOf(doh)), f))

\* The rows of table domains that name the question's domain in some letter
\* case, under a TLD that is managed in lower case.
RegisteredInSomeCase ==
  { i \in 1..Len(domains) :
      /\ toLowerCase(domains[i].tld) = InboundTld
      /\ toLowerCase(domains[i].name) = DomainLabel }

RegisteredIsFound ==
  (Finished /\ NoFault /\ HasInboundQuestion /\ HasDomainLabel
     /\ InboundTld \in ManagedTlds /\ RegisteredInSomeCase # { }) =>
    /\ doh.domainRecord \in { domains[i].id : i \in RegisteredInSomeCase }
    /\ IoHas("records")

C27_LetterCaseDoesNotMatter == CaseBlindDecision /\ RegisteredIsFound

\* --------------------------------------------------------------------------
\* C28.  Every row of table domains has a managed TLD (the name of a row of
\* tlds, or a system TLD) that /api/domain/check reports neither as
\* "tld_not_found" nor as "private": /api/domain/register creates no domain
\* under another TLD, so a query for a registered domain is never forwarded
\* upstream.
\* --------------------------------------------------------------------------
C28_DomainsUnderManagedTlds ==
  /\ \A i \in 1..Len(domains) :
       /\ domains[i].tld \in ManagedTlds
       /\ domainCheckTld(domains[i].tld) = "ok"
  /\ (HasInboundQuestion /\ TldReadReturned /\ HasDomainLabel /\ DomainIds # { }) =>
       ~Forwarded

\* --------------------------------------------------------------------------
\* C29.  Every response to a /dns-query request (405, 400, 404 NXDOMAIN, 500,
\* the relayed reply of the upstream and the local answer) carries the CORS
\* headers that the dispatcher passed to handleDoH; the dispatcher returns the
\* response of handleDoH as it is.
\* --------------------------------------------------------------------------
C29_EveryResponseHasCors ==
  Finished => CorsHeaders \subseteq doh.resp.headers

====
